---- MODULE Spec2Model ----
(***************************************************************************)
(* Verification model of the Density_analyser note canonicaliser, the      *)
(* interval-density model, the calibration store, the calcular_metricas    *)
(* entry point, the stand-alone density and spectral functions and the     *)
(* input form.                                                             *)
(*                                                                         *)
(* Representation                                                          *)
(*   - A note string is a sequence of one-character strings.  The three    *)
(*     non-ASCII glyphs of the program are written "sharp" (U+266F),       *)
(*     "up" (U+2191, QUARTO_TOM_ACIMA) and "down" (U+2193,                  *)
(*     QUARTO_TOM_ABAIXO).                                                 *)
(*   - A program value handed to a note routine is [isStr, chars]: a       *)
(*     non-string value (None, a number) has isStr = FALSE.                *)
(*   - A MIDI pitch is an integer number of cents (hundredths of a         *)
(*     semitone): 60.0 is 6000, a quarter tone is 50.  Every pitch the     *)
(*     program computes from a note is a whole number of cents.            *)
(*   - lambda is an integer number of hundredths (0.05 is 5).              *)
(***************************************************************************)
EXTENDS Integers, Sequences, FiniteSets, TLC

VARIABLES
    note,       \* the value handed to the note routines
    pc,         \* position of the current call chain
    routine,    \* implementation in use: "M" microtonal.py, "N" utils/notes.py, "S" utils/serialize_utils.py
    midi,       \* outcome of note_to_midi(note): [raised, val]
    flags,      \* midi_to_note_name keyword arguments: [cents, symbols]
    name,       \* midi_to_note_name(midi.val, ...)
    midi2,      \* outcome of note_to_midi(name)
    sharp,      \* to_sharp(note)
    sharp2,     \* to_sharp(sharp)
    valid,      \* is_valid_note(note)
    store,      \* config/density_params.json, the calibration store
    storeReads, \* number of times the calibration store has been read
    chord,      \* notas: the list of note strings handed to the density routines
    lambArg,    \* the lamb argument: [given, val]; given = FALSE is lamb=None
    dpc,        \* position of the density call
    dres,       \* what the last density or decay call did and returned
    input_data, \* the dict handed to calcular_metricas
    mpc,        \* position inside calcular_metricas
    mnotas,     \* the local list notas of calcular_metricas
    canonCalls, \* notes rewritten by step 2 of calcular_metricas
    conversions,\* note_to_midi calls made for calcular_metricas
    moduleLoads,\* load_instrument_module calls made for calcular_metricas
    mres,       \* what the caller of calcular_metricas receives
    densidades_instr, \* the list densidades_instr of calcular_metricas: one record per note
    mlamb,      \* lambda used by step 3 of calcular_metricas: [given, val]
    saves,      \* the lambdas written to the calibration store so far, oldest first
    loadOut,    \* outcome of the last carregar_parametros_calibrados()
    calOut,     \* outcome of the last calibrar_lambda()
    fpc,        \* position of the call of a stand-alone function
    fname,      \* the stand-alone function called
    farg,       \* its arguments
    fout,       \* what it returned
    form,       \* the rows of the input form of DensityCalculatorGUI
    edits,      \* number of changes made to the form so far
    gres,       \* what the pending call of get_input_data gave its caller
    ppc,        \* position inside calcular_densidade_intervalar_psicoaustica
    psyImpl,    \* its implementation: "DI" densidade_intervalar.py, "DP" data_processor.py
    valid_pitches, \* the MIDI pitches of its notes
    amps_masked,          \* what critical_band_masking returned
    corrected_amplitudes, \* what apply_loudness_correction returned
    rough_arg,  \* the amplitudes handed to calculate_roughness
    roughness,  \* what calculate_roughness returned
    stages      \* the psychoacoustic stages run so far, in order

noteVars == <<note, pc, routine, midi, flags, name, midi2, sharp, sharp2, valid>>
storeVars == <<store, storeReads>>
densVars == <<chord, lambArg, dpc, dres>>
metVars == <<input_data, mpc, mnotas, canonCalls, conversions, moduleLoads, mres,
            densidades_instr>>
calVars == <<mlamb, saves, loadOut, calOut>>
fnVars == <<fpc, fname, farg, fout>>
formVars == <<form, edits, gres>>
psyVars == <<ppc, psyImpl, valid_pitches, amps_masked, corrected_amplitudes, rough_arg,
            roughness, stages>>

-----------------------------------------------------------------------------
(* Characters and regular expressions                                      *)

UpperLetters == {"A", "B", "C", "D", "E", "F", "G"}
LowerLetters == {"a", "b", "c", "d", "e", "f", "g"}
Letters == UpperLetters \cup LowerLetters
Digits == {"0", "1", "2", "3", "4", "5", "6", "7", "8", "9"}
Signs == {"+", "-"}
Arrows == {"up", "down"}
\* [#b] and [#<sharp>b]: the accidental classes of the patterns
AccAscii == {"#", "b"}
AccAny == {"#", "sharp", "b"}

Upper(c) ==
    CASE c = "a" -> "A" [] c = "b" -> "B" [] c = "c" -> "C" [] c = "d" -> "D"
      [] c = "e" -> "E" [] c = "f" -> "F" [] c = "g" -> "G" [] OTHER -> c

DigitVal(c) ==
    CASE c = "0" -> 0 [] c = "1" -> 1 [] c = "2" -> 2 [] c = "3" -> 3 [] c = "4" -> 4
      [] c = "5" -> 5 [] c = "6" -> 6 [] c = "7" -> 7 [] c = "8" -> 8 [] c = "9" -> 9

DigitChar(d) ==
    CASE d = 0 -> "0" [] d = 1 -> "1" [] d = 2 -> "2" [] d = 3 -> "3" [] d = 4 -> "4"
      [] d = 5 -> "5" [] d = 6 -> "6" [] d = 7 -> "7" [] d = 8 -> "8" [] d = 9 -> "9"

\* str(n) for a natural number
RECURSIVE NatToStr(_)
NatToStr(n) == IF n < 10 THEN <<DigitChar(n)>> ELSE NatToStr(n \div 10) \o <<DigitChar(n % 10)>>

\* str(n) / f"{n}" for an integer
IntToStr(n) == IF n < 0 THEN <<"-">> \o NatToStr(-n) ELSE NatToStr(n)

\* int(digits) for a non-empty digit string
RECURSIVE DigitsToNat(_)
DigitsToNat(ds) ==
    IF Len(ds) = 0 THEN 0 ELSE 10 * DigitsToNat(SubSeq(ds, 1, Len(ds) - 1)) + DigitVal(ds[Len(ds)])

\* int("+NN") / int("-NN")
SignedToInt(sign, ds) == IF sign = <<"-">> THEN -DigitsToNat(ds) ELSE DigitsToNat(ds)

\* s.replace(a, b) for single characters
Replace(s, a, b) == [i \in 1..Len(s) |-> IF s[i] = a THEN b ELSE s[i]]

\* c in s
Contains(s, c) == \E i \in 1..Len(s) : s[i] = c

\* One element of a pattern: between lo and hi characters of the class cs.
Slot(cs, lo, hi) == [cs |-> cs, lo |-> lo, hi |-> hi]
One(cs) == Slot(cs, 1, 1)
Opt(cs) == Slot(cs, 0, 1)

RECURSIVE Run(_, _, _, _)
Run(s, i, cs, hi) ==
    IF hi = 0 \/ i > Len(s) THEN 0
    ELSE IF s[i] \in cs THEN 1 + Run(s, i + 1, cs, hi - 1) ELSE 0

\* Anchored match (^...$ / fullmatch) of s against the pattern, from slot k at
\* position i.  In every pattern of the program an optional or repeated class
\* is disjoint from the class that follows it, so the greedy match is the
\* regular-expression match.  caps holds the text each slot matched.
RECURSIVE MatchFrom(_, _, _, _)
MatchFrom(s, i, pat, k) ==
    IF k > Len(pat) THEN [ok |-> (i = Len(s) + 1), caps |-> <<>>]
    ELSE LET n == Run(s, i, pat[k].cs, pat[k].hi) IN
         IF n < pat[k].lo THEN [ok |-> FALSE, caps |-> <<>>]
         ELSE LET r == MatchFrom(s, i + n, pat, k + 1) IN
              [ok |-> r.ok, caps |-> <<SubSeq(s, i, i + n - 1)>> \o r.caps]

Match(s, pat) == MatchFrom(s, 1, pat, 1)
Matches(s, pat) == Match(s, pat).ok

\* ^([A-Ga-g][acc]?)(\d)$
PatStandard(acc) == <<One(Letters), Opt(acc), One(Digits)>>
\* ^([A-Ga-g][acc]?)([+-])(\d)$
PatQuarter(acc) == <<One(Letters), Opt(acc), One(Signs), One(Digits)>>
\* ^([A-Ga-g][acc]?)([arrows])(\d)$
PatArrow(acc, arrows) == <<One(Letters), Opt(acc), One(arrows), One(Digits)>>
\* ^([A-Ga-g][acc]?\d)([+-]\d{1,2})c$
PatCents(acc) == <<One(Letters), Opt(acc), One(Digits), One(Signs), Slot(Digits, 1, 2), One({"c"})>>
\* ^([A-Ga-g][acc]?[arrows][0-9])([+-][0-9]{1,2})c$
PatArrowCents(acc) ==
    <<One(Letters), Opt(acc), One(Arrows), One(Digits), One(Signs), Slot(Digits, 1, 2), One({"c"})>>
\* ^([A-Ga-g][acc]?[-+][0-9])([+-][0-9]{1,2})c$
PatQuarterCents(acc) ==
    <<One(Letters), Opt(acc), One(Signs), One(Digits), One(Signs), Slot(Digits, 1, 2), One({"c"})>>

\* The concatenation of the slots lo..hi of a match
RECURSIVE Caps(_, _, _)
Caps(m, lo, hi) == IF lo > hi THEN <<>> ELSE m.caps[lo] \o Caps(m, lo + 1, hi)

\* str.capitalize() on a pitch name: first letter upper-cased (the accidental
\* characters # and b are unchanged by lower-casing)
Capitalize(base) == IF Len(base) = 0 THEN base ELSE <<Upper(base[1])>> \o Tail(base)

Str(chars) == [isStr |-> TRUE, chars |-> chars]
NonString == [isStr |-> FALSE, chars |-> <<>>]

-----------------------------------------------------------------------------
(* microtonal.py ("M")                                                     *)

\* NOTAS_CROMATICAS, indexed from 1
NOTAS_CROMATICAS ==
    << <<"C">>, <<"C", "#">>, <<"D">>, <<"D", "#">>, <<"E">>, <<"F">>,
       <<"F", "#">>, <<"G">>, <<"G", "#">>, <<"A">>, <<"A", "#">>, <<"B">> >>

\* ESCALA_CROMATICA: pitch name -> semitone index (no Cb, Fb, E#, B#)
ESCALA_CROMATICA ==
    (<<"C">> :> 0) @@ (<<"C", "#">> :> 1) @@ (<<"D", "b">> :> 1) @@
    (<<"D">> :> 2) @@ (<<"D", "#">> :> 3) @@ (<<"E", "b">> :> 3) @@
    (<<"E">> :> 4) @@
    (<<"F">> :> 5) @@ (<<"F", "#">> :> 6) @@ (<<"G", "b">> :> 6) @@
    (<<"G">> :> 7) @@ (<<"G", "#">> :> 8) @@ (<<"A", "b">> :> 8) @@
    (<<"A">> :> 9) @@ (<<"A", "#">> :> 10) @@ (<<"B", "b">> :> 10) @@
    (<<"B">> :> 11)

\* EQUIVALENCIAS_NOTAS: flats and quarter-tone codes -> sharp spelling
EQUIVALENCIAS_NOTAS ==
    (<<"C", "b">> :> <<"B">>) @@ (<<"D", "b">> :> <<"C", "#">>) @@
    (<<"E", "b">> :> <<"D", "#">>) @@ (<<"F", "b">> :> <<"E">>) @@
    (<<"G", "b">> :> <<"F", "#">>) @@ (<<"A", "b">> :> <<"G", "#">>) @@
    (<<"B", "b">> :> <<"A", "#">>) @@
    (<<"C", "-">> :> <<"B", "#">>) @@ (<<"C", "+">> :> <<"B", "-">>) @@
    (<<"D", "-">> :> <<"C", "#", "+">>) @@ (<<"D", "+">> :> <<"C", "#", "-">>) @@
    (<<"E", "-">> :> <<"D", "#", "+">>) @@ (<<"E", "+">> :> <<"D", "#", "-">>) @@
    (<<"F", "-">> :> <<"E", "#", "+">>) @@ (<<"F", "+">> :> <<"E", "-">>) @@
    (<<"G", "-">> :> <<"F", "#", "+">>) @@ (<<"G", "+">> :> <<"F", "#", "-">>) @@
    (<<"A", "-">> :> <<"G", "#", "+">>) @@ (<<"A", "+">> :> <<"G", "#", "-">>) @@
    (<<"B", "-">> :> <<"A", "#", "+">>) @@ (<<"B", "+">> :> <<"A", "#", "-">>)

\* The value returned for an unrecognised note: 60.0 (C4)
FALLBACK_MIDI == 6000

\* (int(octave) + 1) * 12 + index, in cents
MidiOf(octave, index) == ((DigitsToNat(octave) + 1) * 12 + index) * 100

\* is_valid_note(nota)
IsValidNoteM(v) ==
    IF ~v.isStr \/ v.chars = <<>> THEN FALSE
    ELSE LET nota == v.chars
             nota_normalizada == Replace(nota, "#", "sharp")
         IN \/ Matches(nota_normalizada, PatStandard(AccAny))
            \/ Matches(nota_normalizada, PatQuarter(AccAny))
            \/ Matches(nota_normalizada, PatArrow(AccAny, Arrows))
            \/ Matches(nota_normalizada, PatCents(AccAny))
            \/ \E pattern \in {PatArrowCents(AccAny), PatQuarterCents(AccAny)} :
                   Matches(nota, pattern) \/ Matches(nota_normalizada, pattern)

\* extract_cents(nota) for a string: (base note, cents)
ExtractCentsM(nota) ==
    IF ~Contains(nota, "c") THEN [base |-> nota, cents |-> 0]
    ELSE LET m0 == Match(nota, PatCents(AccAny)) IN
         IF m0.ok THEN [base |-> Caps(m0, 1, 3), cents |-> SignedToInt(m0.caps[4], m0.caps[5])]
         ELSE LET nota_processada == Replace(nota, "sharp", "#")
                  m1 == Match(nota_processada, PatCents(AccAscii))
                  m2 == Match(nota_processada, PatArrowCents(AccAscii))
                  m3 == Match(nota_processada, PatQuarterCents(AccAscii))
                  restore(b) == IF Contains(nota, "sharp") /\ Contains(b, "#")
                                THEN Replace(b, "#", "sharp") ELSE b
              IN IF m1.ok
                 THEN [base |-> restore(Caps(m1, 1, 3)), cents |-> SignedToInt(m1.caps[4], m1.caps[5])]
                 ELSE IF m2.ok
                 THEN [base |-> restore(Caps(m2, 1, 4)), cents |-> SignedToInt(m2.caps[5], m2.caps[6])]
                 ELSE IF m3.ok
                 THEN [base |-> restore(Caps(m3, 1, 4)), cents |-> SignedToInt(m3.caps[5], m3.caps[6])]
                 ELSE [base |-> nota, cents |-> 0]

\* Steps 2..5 of note_to_midi on the (sharp-normalised) string: the up arrow,
\* the down arrow, the quarter-tone code, the plain note, else 60.0.
NoteToMidiPatternsM(n) ==
    LET mu == Match(n, PatArrow(AccAscii, {"up"}))
        md == Match(n, PatArrow(AccAscii, {"down"}))
        mq == Match(n, PatQuarter(AccAscii))
        ms == Match(n, PatStandard(AccAscii))
        known(m) == m.ok /\ Capitalize(Caps(m, 1, 2)) \in DOMAIN ESCALA_CROMATICA
        index(m) == ESCALA_CROMATICA[Capitalize(Caps(m, 1, 2))]
    IN IF known(mu) THEN MidiOf(mu.caps[4], index(mu)) - 50
       ELSE IF known(md) THEN MidiOf(md.caps[4], index(md)) + 50
       ELSE IF known(mq)
            THEN MidiOf(mq.caps[4], index(mq)) + (IF mq.caps[3] = <<"+">> THEN 50 ELSE -50)
       ELSE IF known(ms) THEN MidiOf(ms.caps[3], index(ms))
       ELSE FALLBACK_MIDI

\* note_to_midi(note): the MIDI value in cents; never raises
RECURSIVE NoteToMidiM(_)
NoteToMidiM(v) ==
    IF ~v.isStr \/ v.chars = <<>> THEN FALLBACK_MIDI
    ELSE LET n == Replace(v.chars, "sharp", "#")
             ec == ExtractCentsM(n)
         IN IF ec.cents # 0 THEN NoteToMidiM(Str(ec.base)) + ec.cents
            ELSE NoteToMidiPatternsM(n)

\* The step of note_to_midi that returns for the (sharp-normalised) string:
\* "up", "down", "quarter", "standard", or "fallback" for the final return 60.0
NoteToMidiBranchM(n) ==
    LET mu == Match(n, PatArrow(AccAscii, {"up"}))
        md == Match(n, PatArrow(AccAscii, {"down"}))
        mq == Match(n, PatQuarter(AccAscii))
        ms == Match(n, PatStandard(AccAscii))
        known(m) == m.ok /\ Capitalize(Caps(m, 1, 2)) \in DOMAIN ESCALA_CROMATICA
    IN IF known(mu) THEN "up"
       ELSE IF known(md) THEN "down"
       ELSE IF known(mq) THEN "quarter"
       ELSE IF known(ms) THEN "standard"
       ELSE "fallback"

\* Whether note_to_midi(note) returns from one of its note patterns, the one
\* of the base note when a cents suffix was taken off, and not from the
\* fallback
RECURSIVE NoteToMidiParsesM(_)
NoteToMidiParsesM(v) ==
    IF ~v.isStr \/ v.chars = <<>> THEN FALSE
    ELSE LET n == Replace(v.chars, "sharp", "#")
             ec == ExtractCentsM(n)
         IN IF ec.cents # 0 THEN NoteToMidiParsesM(Str(ec.base))
            ELSE NoteToMidiBranchM(n) # "fallback"

\* f"+{cents}c" / f"{cents}c"
CentsSuffix(cents) == (IF cents > 0 THEN <<"+">> ELSE <<>>) \o IntToStr(cents) \o <<"c">>

\* converter_para_sustenido(nota) / to_sharp(nota): the value returned
ConverterParaSustenido(v) ==
    IF ~IsValidNoteM(v) THEN v
    ELSE LET ec == ExtractCentsM(v.chars)
             base_note == ec.base
             has_microtonal_symbol == Contains(base_note, "up") \/ Contains(base_note, "down")
             ma == Match(base_note, PatArrow(AccAscii, Arrows))
             equiv(p) == IF p \in DOMAIN EQUIVALENCIAS_NOTAS THEN EQUIVALENCIAS_NOTAS[p] ELSE p
             base_convertida ==
                 IF has_microtonal_symbol
                 THEN IF ma.ok THEN equiv(Caps(ma, 1, 2)) \o ma.caps[3] \o ma.caps[4]
                      ELSE base_note
                 ELSE equiv(SubSeq(base_note, 1, Len(base_note) - 1)) \o <<base_note[Len(base_note)]>>
         IN IF ec.cents # 0 THEN Str(base_convertida \o CentsSuffix(ec.cents))
            ELSE Str(base_convertida)

\* midi_to_note_name(midi_number, include_cents, use_symbols); m in cents
MidiToNoteNameM(m, include_cents, use_symbols) ==
    IF m < 0 \/ m > 12700 THEN <<"N", "/", "A">>
    ELSE LET midi_int == m \div 100
             cents == m % 100          \* round(midi_frac * 100); midi_frac >= 0
             octave == (midi_int \div 12) - 1
             note_base == NOTAS_CROMATICAS[(midi_int % 12) + 1]
             basic_note == note_base \o IntToStr(octave)
         IN IF use_symbols /\ cents # 0 /\ 15 <= cents /\ cents <= 35
            THEN note_base \o <<"down">> \o IntToStr(octave)
            ELSE IF use_symbols /\ cents # 0 /\ -35 <= cents /\ cents <= -15
            THEN note_base \o <<"up">> \o IntToStr(octave)
            ELSE IF include_cents /\ cents # 0
            THEN basic_note \o CentsSuffix(cents)
            ELSE basic_note

-----------------------------------------------------------------------------
(* utils/notes.py ("N")                                                    *)

\* An outcome of a call that may raise: the value returned, or the exception
Returned(x) == [raised |-> FALSE, val |-> x]
Raised == [raised |-> TRUE, val |-> 0]

\* NOTE_BASE_MIDI of utils/notes.py, in cents
NOTE_BASE_MIDI ==
    (<<"C">> :> 0) @@ (<<"C", "#">> :> 100) @@ (<<"D", "b">> :> 100) @@
    (<<"D">> :> 200) @@ (<<"D", "#">> :> 300) @@ (<<"E", "b">> :> 300) @@
    (<<"E">> :> 400) @@ (<<"E", "#">> :> 500) @@
    (<<"F">> :> 500) @@ (<<"F", "#">> :> 600) @@ (<<"G", "b">> :> 600) @@
    (<<"G">> :> 700) @@ (<<"G", "#">> :> 800) @@ (<<"A", "b">> :> 800) @@
    (<<"A">> :> 900) @@ (<<"A", "#">> :> 1000) @@ (<<"B", "b">> :> 1000) @@
    (<<"B">> :> 1100) @@ (<<"B", "#">> :> 0) @@
    (<<"C", "-">> :> 50) @@ (<<"C", "+">> :> -50) @@
    (<<"C", "#", "-">> :> 150) @@ (<<"C", "#", "+">> :> 50) @@
    (<<"D", "-">> :> 250) @@ (<<"D", "+">> :> 150) @@
    (<<"D", "#", "-">> :> 350) @@ (<<"D", "#", "+">> :> 250) @@
    (<<"E", "-">> :> 450) @@ (<<"E", "+">> :> 350) @@
    (<<"F", "-">> :> 550) @@ (<<"F", "+">> :> 450) @@
    (<<"F", "#", "-">> :> 650) @@ (<<"F", "#", "+">> :> 550) @@
    (<<"G", "-">> :> 750) @@ (<<"G", "+">> :> 650) @@
    (<<"G", "#", "-">> :> 850) @@ (<<"G", "#", "+">> :> 750) @@
    (<<"A", "-">> :> 950) @@ (<<"A", "+">> :> 850) @@
    (<<"A", "#", "-">> :> 1050) @@ (<<"A", "#", "+">> :> 950) @@
    (<<"B", "-">> :> 1150) @@ (<<"B", "+">> :> 1050) @@
    (<<"C", "b">> :> 1100) @@ (<<"C", "b", "-">> :> 1150) @@ (<<"C", "b", "+">> :> 1050) @@
    (<<"F", "b">> :> 400) @@ (<<"F", "b", "-">> :> 450) @@ (<<"F", "b", "+">> :> 350) @@
    (<<"E", "#", "-">> :> 550) @@ (<<"B", "#", "-">> :> 50) @@
    (<<"E", "#", "+">> :> 450) @@ (<<"B", "#", "+">> :> -50)

\* the flats table of to_sharp
FlatsN ==
    (<<"C", "b">> :> <<"B">>) @@ (<<"D", "b">> :> <<"C", "#">>) @@
    (<<"E", "b">> :> <<"D", "#">>) @@ (<<"F", "b">> :> <<"E">>) @@
    (<<"G", "b">> :> <<"F", "#">>) @@ (<<"A", "b">> :> <<"G", "#">>) @@
    (<<"B", "b">> :> <<"A", "#">>)

\* to_sharp(note) of utils/notes.py
ToSharpN(s) ==
    LET m == Match(s, PatArrow(AccAscii, Arrows)) IN
    IF m.ok
    THEN Caps(m, 1, 2) \o (IF m.caps[3] = <<"up">> THEN <<"+">> ELSE <<"-">>) \o m.caps[4]
    ELSE IF Len(s) >= 2 /\ SubSeq(s, 1, 2) \in DOMAIN FlatsN
         THEN FlatsN[SubSeq(s, 1, 2)] \o SubSeq(s, 3, Len(s))
         ELSE s

\* normalize_note_string(note) for a string (the characters of the model hold
\* no whitespace and are unchanged by NFKC)
NormalizeNoteStringN(s) ==
    LET a == Replace(s, "sharp", "#")
        b == Replace(Replace(a, "up", "+"), "down", "-")
        c == ToSharpN(b)
    IN IF Len(c) >= 2 THEN <<Upper(c[1])>> \o Tail(c) ELSE c

\* extract_cents(note) of utils/notes.py
ExtractCentsN(s) ==
    LET m == Match(s, PatCents(AccAscii)) IN
    IF m.ok THEN [base |-> Caps(m, 1, 3), cents |-> SignedToInt(m.caps[4], m.caps[5])]
    ELSE [base |-> s, cents |-> 0]

\* is_valid_note(note) of utils/notes.py
IsValidNoteN(s) ==
    \/ Matches(s, PatStandard(AccAscii))
    \/ Matches(s, PatQuarter(AccAscii))
    \/ Matches(s, PatArrow(AccAscii, Arrows))
    \/ Matches(s, PatCents(AccAscii))

\* note_to_midi(note) of utils/notes.py: raises ValueError on a non-string, on
\* a string of no recognised format and on an unknown base
NoteToMidiN(v) ==
    IF ~v.isStr THEN Raised
    ELSE LET ec == ExtractCentsN(NormalizeNoteStringN(v.chars))
             n == ToSharpN(ec.base)
             m == Match(n, PatStandard(AccAscii))
             mq == Match(n, PatQuarter(AccAscii))
             base == IF m.ok THEN Caps(m, 1, 2) ELSE Caps(mq, 1, 3)
             octave == IF m.ok THEN m.caps[3] ELSE mq.caps[4]
         IN IF ~m.ok /\ ~mq.ok THEN Raised
            ELSE IF base \notin DOMAIN NOTE_BASE_MIDI THEN Raised
            ELSE Returned(NOTE_BASE_MIDI[base] + (DigitsToNat(octave) + 1) * 1200 + ec.cents)

\* rev of midi_to_note_name: the last key of NOTE_BASE_MIDI holding each whole
\* semitone, indexed from 1
RevN ==
    << <<"B", "#">>, <<"D", "b">>, <<"D">>, <<"E", "b">>, <<"F", "b">>, <<"F">>,
       <<"G", "b">>, <<"G">>, <<"A", "b">>, <<"A">>, <<"B", "b">>, <<"C", "b">> >>

\* int(round(m)) for m >= 0 in cents: round half to even
RoundHalfEven(m) ==
    LET q == m \div 100
        r == m % 100
    IN IF r < 50 THEN q ELSE IF r > 50 THEN q + 1 ELSE IF q % 2 = 0 THEN q ELSE q + 1

\* midi_to_note_name(m) of utils/notes.py; m >= 0 in cents
MidiToNoteNameN(m) ==
    LET m_round == RoundHalfEven(m)
        octave == (m_round \div 12) - 1
        base == RevN[(m_round % 12) + 1]
        cents == m - 100 * m_round
    IN IF cents # 0 THEN base \o IntToStr(octave) \o CentsSuffix(cents)
       ELSE base \o IntToStr(octave)

-----------------------------------------------------------------------------
(* utils/serialize_utils.py ("S")                                          *)

\* ([A-Ga-g][#b]?\d+)([+-]\d{1,2})c
PatCentsS ==
    <<One(Letters), Opt(AccAscii), Slot(Digits, 1, 99), One(Signs), Slot(Digits, 1, 2), One({"c"})>>

\* note_to_midi(note) of utils/serialize_utils.py; never raises
RECURSIVE NoteToMidiS(_)
NoteToMidiS(v) ==
    IF ~v.isStr \/ v.chars = <<>> THEN FALLBACK_MIDI
    ELSE LET n == v.chars
             mc == Match(n, PatCentsS)
             mu == Match(n, PatArrow(AccAscii, {"up"}))
             md == Match(n, PatArrow(AccAscii, {"down"}))
             mq == Match(n, PatQuarter(AccAscii))
             ms == Match(n, PatStandard(AccAscii))
             known(m) == m.ok /\ Capitalize(Caps(m, 1, 2)) \in DOMAIN ESCALA_CROMATICA
             index(m) == ESCALA_CROMATICA[Capitalize(Caps(m, 1, 2))]
         IN IF mc.ok THEN NoteToMidiS(Str(Caps(mc, 1, 3))) + SignedToInt(mc.caps[4], mc.caps[5])
            ELSE IF known(mu) THEN MidiOf(mu.caps[4], index(mu)) + 50
            ELSE IF known(md) THEN MidiOf(md.caps[4], index(md)) - 50
            ELSE IF known(mq)
                 THEN MidiOf(mq.caps[4], index(mq)) + (IF mq.caps[3] = <<"+">> THEN 50 ELSE -50)
            ELSE IF known(ms) THEN MidiOf(ms.caps[3], index(ms))
            ELSE FALLBACK_MIDI

-----------------------------------------------------------------------------
(* Note routines: inputs and calls                                         *)

\* Well-formed inputs: pitch letter (every upper-case letter, and the two
\* lower-case letters that are also the flat sign and the cents mark), any
\* accidental, any quarter-tone mark, every octave digit, and a cents suffix
\* (none, zero of either sign, one digit, a leading zero, two digits, the
\* largest values).
InputLetters == UpperLetters \cup {"b", "c"}
InputAccidentals == {<<>>, <<"#">>, <<"b">>, <<"sharp">>}
InputQuarters == {<<>>, <<"+">>, <<"-">>, <<"up">>, <<"down">>}
InputOctaves == {<<d>> : d \in Digits}
InputCents ==
    { <<>>, <<"+", "0", "c">>, <<"-", "0", "c">>, <<"+", "5", "c">>, <<"+", "0", "5", "c">>,
      <<"-", "5", "0", "c">>, <<"+", "9", "9", "c">>, <<"-", "9", "9", "c">> }

WellFormedStrings ==
    {<<l>> \o a \o q \o o \o c :
        l \in InputLetters, a \in InputAccidentals, q \in InputQuarters,
        o \in InputOctaves, c \in InputCents}

\* Strings of no note format: the empty string, a letter that names no pitch,
\* no octave, a two-digit octave, a three-digit cents value, a suffix without
\* its c.
JunkStrings ==
    {<<>>} \cup
    {<<l>> \o a \o q \o o \o c :
        l \in {"C", "H"}, a \in {<<>>, <<"#">>}, q \in {<<>>, <<"+">>, <<"up">>},
        o \in {<<>>, <<"4">>, <<"1", "0">>},
        c \in {<<>>, <<"+", "5", "0", "c">>, <<"+", "1", "0", "0", "c">>, <<"+", "5", "0">>}}

InputStrings == WellFormedStrings \cup JunkStrings

InputValues == {NonString} \cup {Str(s) : s \in InputStrings}

NoFlags == [cents |-> FALSE, symbols |-> FALSE]

\* note_to_midi(note), microtonal.py
CallNoteToMidiM ==
    /\ pc = "ready"
    /\ routine' = "M"
    /\ midi' = Returned(NoteToMidiM(note))
    /\ pc' = "midi"
    /\ UNCHANGED <<note, flags, name, midi2, sharp, sharp2, valid>>
    /\ UNCHANGED <<storeVars, densVars, metVars>>
    /\ UNCHANGED <<calVars, fnVars, formVars, psyVars>>

\* note_to_midi(note), utils/notes.py
CallNoteToMidiN ==
    /\ pc = "ready"
    /\ routine' = "N"
    /\ midi' = NoteToMidiN(note)
    /\ pc' = "midi"
    /\ UNCHANGED <<note, flags, name, midi2, sharp, sharp2, valid>>
    /\ UNCHANGED <<storeVars, densVars, metVars>>
    /\ UNCHANGED <<calVars, fnVars, formVars, psyVars>>

\* note_to_midi(note), utils/serialize_utils.py
CallNoteToMidiS ==
    /\ pc = "ready"
    /\ routine' = "S"
    /\ midi' = Returned(NoteToMidiS(note))
    /\ pc' = "midi"
    /\ UNCHANGED <<note, flags, name, midi2, sharp, sharp2, valid>>
    /\ UNCHANGED <<storeVars, densVars, metVars>>
    /\ UNCHANGED <<calVars, fnVars, formVars, psyVars>>

\* midi_to_note_name(midi, include_cents, use_symbols), microtonal.py
CallMidiToNoteNameM ==
    /\ pc = "midi" /\ routine = "M"
    /\ \E ic \in BOOLEAN, us \in BOOLEAN :
          /\ flags' = [cents |-> ic, symbols |-> us]
          /\ name' = MidiToNoteNameM(midi.val, ic, us)
    /\ pc' = "name"
    /\ UNCHANGED <<note, routine, midi, midi2, sharp, sharp2, valid>>
    /\ UNCHANGED <<storeVars, densVars, metVars>>
    /\ UNCHANGED <<calVars, fnVars, formVars, psyVars>>

\* midi_to_note_name(midi), utils/notes.py
CallMidiToNoteNameN ==
    /\ pc = "midi" /\ routine = "N" /\ ~midi.raised
    /\ flags' = NoFlags
    /\ name' = MidiToNoteNameN(midi.val)
    /\ pc' = "name"
    /\ UNCHANGED <<note, routine, midi, midi2, sharp, sharp2, valid>>
    /\ UNCHANGED <<storeVars, densVars, metVars>>
    /\ UNCHANGED <<calVars, fnVars, formVars, psyVars>>

\* note_to_midi(name): the name is parsed again by the module that made it
Reparse ==
    /\ pc = "name"
    /\ midi2' = IF routine = "M" THEN Returned(NoteToMidiM(Str(name))) ELSE NoteToMidiN(Str(name))
    /\ pc' = "reparsed"
    /\ UNCHANGED <<note, routine, midi, flags, name, sharp, sharp2, valid>>
    /\ UNCHANGED <<storeVars, densVars, metVars>>
    /\ UNCHANGED <<calVars, fnVars, formVars, psyVars>>

\* to_sharp(note)
CallToSharp ==
    /\ pc = "ready"
    /\ sharp' = ConverterParaSustenido(note)
    /\ pc' = "sharp"
    /\ UNCHANGED <<note, routine, midi, flags, name, midi2, sharp2, valid>>
    /\ UNCHANGED <<storeVars, densVars, metVars>>
    /\ UNCHANGED <<calVars, fnVars, formVars, psyVars>>

\* to_sharp(to_sharp(note)): the canonical note is normalised again
Renormalize ==
    /\ pc = "sharp"
    /\ sharp2' = ConverterParaSustenido(sharp)
    /\ pc' = "sharp2"
    /\ UNCHANGED <<note, routine, midi, flags, name, midi2, sharp, valid>>
    /\ UNCHANGED <<storeVars, densVars, metVars>>
    /\ UNCHANGED <<calVars, fnVars, formVars, psyVars>>

\* is_valid_note(note)
CallIsValidNote ==
    /\ pc = "ready"
    /\ valid' = IsValidNoteM(note)
    /\ pc' = "valid"
    /\ UNCHANGED <<note, routine, midi, flags, name, midi2, sharp, sharp2>>
    /\ UNCHANGED <<storeVars, densVars, metVars>>
    /\ UNCHANGED <<calVars, fnVars, formVars, psyVars>>

-----------------------------------------------------------------------------
(* Calibration store, decay and pairwise density:                          *)
(* densidade_intervalar.py ("DI") and calibration.py ("CAL")               *)
(*   - An interval delta is an integer number of hundredths of a           *)
(*     microtonal step (two steps to the semitone): delta = 2 * cents.     *)
(*   - A decay value is [kind, num]: kind "const" is the number num/100,   *)
(*     kind "exp" is exp(-num/10000) with num = lamb * delta > 0, kept     *)
(*     symbolic.                                                           *)

\* config/density_params.json: no file, a file json.load rejects, or an object
Absent == [kind |-> "absent", hasLambda |-> FALSE, lambda |-> 0]
Corrupt == [kind |-> "corrupt", hasLambda |-> FALSE, lambda |-> 0]
Object(has, l) == [kind |-> "object", hasLambda |-> has, lambda |-> IF has THEN l ELSE 0]

\* json.load gives a value that is not a dict (a list, a number), or the file
\* exists and open() is refused
NonObject == [kind |-> "nonobject", hasLambda |-> FALSE, lambda |-> 0]
Unreadable == [kind |-> "unreadable", hasLambda |-> FALSE, lambda |-> 0]

DEFAULT_LAMBDA == 5
DEFAULT_LAMBDA_CAL == 5

\* The body of the try block of carregar_parametros_calibrados: os.path.exists,
\* open, json.load, params.get('lambda', default)
CorpoCarregar(st, default) ==
    CASE st.kind = "absent" -> [exc |-> "none", val |-> default]
      [] st.kind = "unreadable" -> [exc |-> "OSError", val |-> 0]
      [] st.kind = "corrupt" -> [exc |-> "JSONDecodeError", val |-> 0]
      [] st.kind = "nonobject" -> [exc |-> "AttributeError", val |-> 0]
      [] OTHER -> [exc |-> "none", val |-> IF st.hasLambda THEN st.lambda ELSE default]

\* A plausible slip: the handler is narrowed to the parse error
ExceptJSONDecodeError(exc) == exc = "JSONDecodeError"

\* `except Exception as e:` catches whatever the body raised
ExceptException(exc) == exc # "none"

\* try: ... except Exception: return DEFAULT_LAMBDA; the outcome [raised, val]
TentarCarregar(st, default) ==
    LET r == CorpoCarregar(st, default)
    IN IF r.exc = "none" THEN [raised |-> FALSE, val |-> r.val]
       ELSE IF ExceptException(r.exc) THEN [raised |-> FALSE, val |-> default]
       ELSE [raised |-> TRUE, val |-> 0]

\* A plausible slip: the value is kept from the first load and the file is
\* not read again
CarregarSemprePadrao(st) == DEFAULT_LAMBDA

\* carregar_parametros_calibrados() of densidade_intervalar.py
CarregarParametrosCalibrados(st) == TentarCarregar(st, DEFAULT_LAMBDA).val

\* carregar_parametros_calibrados() of calibration.py, default path
CarregarParametrosCalibradosCAL(st) == TentarCarregar(st, DEFAULT_LAMBDA_CAL).val

\* salvar_parametros_calibrados({'lambda': v}) of both modules: the file is
\* overwritten and True returned, or makedirs/open fails, the error is logged
\* and False returned
SalvarParametrosCalibrados(st, v, ok) ==
    IF ok THEN [store |-> [kind |-> "object", hasLambda |-> TRUE, lambda |-> v], returned |-> TRUE]
    ELSE [store |-> st, returned |-> FALSE]

NoLamb == [given |-> FALSE, val |-> 0]
Lamb(v) == [given |-> TRUE, val |-> v]

\* `if lamb is None: lamb = carregar_parametros_calibrados()` reads the store once
ReadsFor(lamb) == IF lamb.given THEN 0 ELSE 1

Const(n) == [kind |-> "const", num |-> n]
NoValue == [kind |-> "none", num |-> 0]
\* exp(-x): exp(-0) is the float 1.0
ExpNeg(x) == IF x = 0 THEN Const(100) ELSE [kind |-> "exp", num |-> x]

\* decaimento_exponencial_modificado(delta, lamb) of densidade_intervalar.py
DecaimentoExponencialModificado(delta, lamb, st) ==
    LET l == IF lamb.given THEN lamb.val ELSE CarregarParametrosCalibrados(st)
    IN IF delta = 0 THEN Const(100) ELSE ExpNeg(l * delta)

\* decaimento_exponencial_modificado(delta, lamb) of calibration.py
DecaimentoExponencialModificadoCAL(delta, lamb, st) ==
    LET l == IF lamb.given THEN lamb.val ELSE CarregarParametrosCalibradosCAL(st)
    IN IF delta = 0 THEN Const(0) ELSE ExpNeg(l * delta)

Abs(x) == IF x < 0 THEN -x ELSE x
Max(a, b) == IF a >= b THEN a ELSE b

Min(a, b) == IF a <= b THEN a ELSE b

\* `if nota` of the list comprehensions: a non-empty string
Truthy(v) == v.isStr /\ v.chars # <<>>

\* for j in range(i + off, n), and for i in range(n) around it: the index
\* pairs in the order the loops visit them (indices from 1)
RECURSIVE RowPairs(_, _, _)
RowPairs(i, j, n) == IF j > n THEN <<>> ELSE <<<<i, j>>>> \o RowPairs(i, j + 1, n)

RECURSIVE LoopPairs(_, _, _)
LoopPairs(i, n, off) ==
    IF i > n THEN <<>> ELSE RowPairs(i, i + off, n) \o LoopPairs(i + 1, n, off)

\* A plausible slip: the inner loop starts at i, so a note is paired with itself
PairsWithSelf(n) == LoopPairs(1, n, 0)

\* for i in range(n): for j in range(i+1, n) of densidade_intervalar.py
PairsDI(n) == LoopPairs(1, n, 1)

\* for i in range(len(pitches)): for j in range(i+1, len(pitches)) of calibration.py
PairsCAL(n) == LoopPairs(1, n, 1)

\* pitches = [note_to_midi(nota) for nota in notas if nota], microtonal.note_to_midi
PitchesDI(notas) ==
    LET kept == SelectSeq(notas, Truthy)
    IN [k \in 1..Len(kept) |-> NoteToMidiM(kept[k])]

\* calcular_peso_perceptual_microtonal(midi_1, midi_2, delta_semitons): pitches
\* and interval in cents, the weight in hundredths (1.3 * 1.5 is 195)
CalcularPesoPerceptualMicrotonal(midi_1, midi_2, delta_semitons) ==
    LET soma == midi_1 + midi_2   \* twice registro_medio
        registro == IF soma > 2 * 8400 THEN 13
                    ELSE IF soma > 2 * 7200 THEN 11
                    ELSE IF soma < 2 * 4800 THEN 8
                    ELSE 10
        intervalo == IF delta_semitons <= 100 THEN 15
                     ELSE IF delta_semitons <= 200 THEN 13
                     ELSE IF delta_semitons <= 400 THEN 11
                     ELSE IF delta_semitons >= 1200 THEN 9
                     ELSE 10
    IN registro * intervalo

\* One pass of the loop body of densidade_intervalar.calcular_densidade_intervalar:
\* notas[i] and notas[j] index the list as given, pitches the filtered one.
\* The term added is value * peso / 100.
TermDI(notas, pitches, p, l, usar, st) ==
    LET i == p[1]
        j == p[2]
        d0 == Abs(pitches[i] - pitches[j])
        delta_semitons == IF d0 < 1 /\ notas[i] # notas[j] THEN Max(d0, 25) ELSE d0
        delta == delta_semitons * 2
    IN [i |-> i, j |-> j, delta |-> delta, weighted |-> usar,
        midi1 |-> pitches[i], midi2 |-> pitches[j],
        peso |-> IF usar
                 THEN CalcularPesoPerceptualMicrotonal(pitches[i], pitches[j], delta_semitons)
                 ELSE 100,
        value |-> DecaimentoExponencialModificado(delta, Lamb(l), st)]

\* calcular_densidade_intervalar(notas, lamb, usar_ponderacao_perceptual) of
\* densidade_intervalar.py: the terms added to densidade_total, in order
CalcularDensidadeIntervalar(notas, lamb, usar, st) ==
    LET l == IF lamb.given THEN lamb.val ELSE CarregarParametrosCalibrados(st)
        pitches == PitchesDI(notas)
        pairs == PairsDI(Len(pitches))
    IN [raised |-> FALSE, lambUsed |-> l,
        terms |-> [t \in 1..Len(pairs) |-> TermDI(notas, pitches, pairs[t], l, usar, st)]]

\* One pass of the loop body of calibration.calcular_densidade_intervalar
TermCAL(pitches, p, l, st) ==
    LET delta_semitons == Abs(pitches[p[1]] - pitches[p[2]])
        delta == delta_semitons * 2
    IN [i |-> p[1], j |-> p[2], delta |-> delta, weighted |-> FALSE,
        midi1 |-> pitches[p[1]], midi2 |-> pitches[p[2]], peso |-> 100,
        value |-> DecaimentoExponencialModificadoCAL(delta, Lamb(l), st)]

\* pitches = [note_to_midi(nota) for nota in notas if nota] of calibration.py,
\* with utils.notes.note_to_midi: the outcome of each conversion
OutcomesCAL(notas) ==
    LET kept == SelectSeq(notas, Truthy)
    IN [k \in 1..Len(kept) |-> NoteToMidiN(kept[k])]

\* The pairwise loop of calibration.calcular_densidade_intervalar over the
\* converted pitches
LoopCAL(outs, l, st) ==
    LET pitches == [k \in 1..Len(outs) |-> outs[k].val]
        pairs == PairsCAL(Len(outs))
    IN [t \in 1..Len(pairs) |-> TermCAL(pitches, pairs[t], l, st)]

\* After the length check of calibration.calcular_densidade_intervalar: a note
\* the parser rejects raises ValueError out of the list comprehension
ConvertAndLoopCAL(outs, l, st) ==
    IF \E k \in 1..Len(outs) : outs[k].raised
    THEN [raised |-> TRUE, lambUsed |-> l, terms |-> <<>>]
    ELSE [raised |-> FALSE, lambUsed |-> l, terms |-> LoopCAL(outs, l, st)]

\* calcular_densidade_intervalar(notas, lamb) of calibration.py
CalcularDensidadeIntervalarCAL(notas, lamb, st) ==
    LET l == IF lamb.given THEN lamb.val ELSE CarregarParametrosCalibradosCAL(st)
    IN IF Len(notas) < 2 THEN [raised |-> FALSE, lambUsed |-> l, terms |-> <<>>]
       ELSE ConvertAndLoopCAL(OutcomesCAL(notas), l, st)

\* Density inputs
MaxNotes == 4

ChordNotes ==
    { Str(<<>>), Str(<<"C", "4">>), Str(<<"C", "+", "4">>), Str(<<"H", "4">>) }

Chords == UNION {[1..n -> ChordNotes] : n \in 0..MaxNotes}

Stores ==
    {Absent, Corrupt, Object(FALSE, 0), Object(TRUE, 1), Object(TRUE, 100), Object(TRUE, 150)}

LambArgs == {NoLamb, Lamb(5), Lamb(100)}

InputDeltas == {0, 50, 2400}

NoCall ==
    [call |-> "none", impl |-> "none", delta |-> 0, usar |-> FALSE, raised |-> FALSE,
     lambUsed |-> 0, terms |-> <<>>, value |-> NoValue]

\* decaimento_exponencial_modificado(delta, lambArg), densidade_intervalar.py
CallDecaimentoDI ==
    /\ dpc = "ready"
    /\ \E delta \in InputDeltas :
          dres' = [call |-> "decay", impl |-> "DI", delta |-> delta, usar |-> FALSE,
                   raised |-> FALSE,
                   lambUsed |-> IF lambArg.given THEN lambArg.val
                                ELSE CarregarParametrosCalibrados(store),
                   terms |-> <<>>,
                   value |-> DecaimentoExponencialModificado(delta, lambArg, store)]
    /\ storeReads' = storeReads + ReadsFor(lambArg)
    /\ dpc' = "done"
    /\ UNCHANGED <<store, chord, lambArg>>
    /\ UNCHANGED <<noteVars, metVars>>
    /\ UNCHANGED <<calVars, fnVars, formVars, psyVars>>

\* decaimento_exponencial_modificado(delta, lambArg), calibration.py
CallDecaimentoCAL ==
    /\ dpc = "ready"
    /\ \E delta \in InputDeltas :
          dres' = [call |-> "decay", impl |-> "CAL", delta |-> delta, usar |-> FALSE,
                   raised |-> FALSE,
                   lambUsed |-> IF lambArg.given THEN lambArg.val
                                ELSE CarregarParametrosCalibradosCAL(store),
                   terms |-> <<>>,
                   value |-> DecaimentoExponencialModificadoCAL(delta, lambArg, store)]
    /\ storeReads' = storeReads + ReadsFor(lambArg)
    /\ dpc' = "done"
    /\ UNCHANGED <<store, chord, lambArg>>
    /\ UNCHANGED <<noteVars, metVars>>
    /\ UNCHANGED <<calVars, fnVars, formVars, psyVars>>

\* calcular_densidade_intervalar(chord, lambArg, usar), densidade_intervalar.py
CallDensidadeDI ==
    /\ dpc = "ready"
    /\ \E usar \in BOOLEAN :
          LET r == CalcularDensidadeIntervalar(chord, lambArg, usar, store)
          IN dres' = [call |-> "density", impl |-> "DI", delta |-> 0, usar |-> usar,
                      raised |-> r.raised, lambUsed |-> r.lambUsed, terms |-> r.terms,
                      value |-> NoValue]
    /\ storeReads' = storeReads + ReadsFor(lambArg)
    /\ dpc' = "done"
    /\ UNCHANGED <<store, chord, lambArg>>
    /\ UNCHANGED <<noteVars, metVars>>
    /\ UNCHANGED <<calVars, fnVars, formVars, psyVars>>

\* calcular_densidade_intervalar(chord, lambArg), calibration.py
CallDensidadeCAL ==
    /\ dpc = "ready"
    /\ LET r == CalcularDensidadeIntervalarCAL(chord, lambArg, store)
       IN dres' = [call |-> "density", impl |-> "CAL", delta |-> 0, usar |-> FALSE,
                   raised |-> r.raised, lambUsed |-> r.lambUsed, terms |-> r.terms,
                   value |-> NoValue]
    /\ storeReads' = storeReads + ReadsFor(lambArg)
    /\ dpc' = "done"
    /\ UNCHANGED <<store, chord, lambArg>>
    /\ UNCHANGED <<noteVars, metVars>>
    /\ UNCHANGED <<calVars, fnVars, formVars, psyVars>>

-----------------------------------------------------------------------------
(* calcular_metricas (data_processor.py) under handle_exceptions           *)
(* (error_handler.py).  The run is followed step by step; the counters     *)
(* record the work done so far.  The numeric results of steps 3 to 12 are  *)
(* not represented here, only the calls they make.                         *)

\* A list-valued entry of input_data: key absent, value None, or a list
Missing == [kind |-> "missing", items |-> <<>>]
None == [kind |-> "none", items |-> <<>>]
List(s) == [kind |-> "list", items |-> s]

RequiredLists == {"notes", "dynamics", "instruments", "num_instruments"}

\* input_data.get(key, [])
Get(d, key) == IF d[key].kind = "missing" THEN List(<<>>) ELSE d[key]

\* `not x` for None or a list
Falsy(v) == v.kind = "none" \/ v.items = <<>>

\* not (notas and dinamicas and instrumentos and numeros_instr)
FaltamListas(d) == \E key \in RequiredLists : Falsy(Get(d, key))

\* A plausible slip: the shortened chain forgets num_instruments
MesmoComprimentoTres(d) ==
    /\ Len(Get(d, "notes").items) = Len(Get(d, "dynamics").items)
    /\ Len(Get(d, "dynamics").items) = Len(Get(d, "instruments").items)

\* len(notas) == len(dinamicas) == len(instrumentos) == len(numeros_instr)
MesmoComprimento(d) ==
    /\ Len(Get(d, "notes").items) = Len(Get(d, "dynamics").items)
    /\ Len(Get(d, "dynamics").items) = Len(Get(d, "instruments").items)
    /\ Len(Get(d, "instruments").items) = Len(Get(d, "num_instruments").items)

\* Step 2, one note: converter_para_sustenido(base) followed by the cents suffix
CanonNota(v) ==
    LET ec == ExtractCentsM(v.chars)
        cs == ConverterParaSustenido(Str(ec.base))
    IN IF ec.cents # 0 THEN Str(cs.chars \o CentsSuffix(ec.cents)) ELSE cs

\* The instrument modules of the package instrumentos
AvailableInstruments == {"flauta", "clarinete"}

\* instrument_name.lower(), on the names used as inputs
LowerName(n) ==
    IF n = "Flauta" THEN "flauta" ELSE IF n = "Clarinete" THEN "clarinete" ELSE n

\* get_instrument_module(name) finds a module
ModuleFound(n) == LowerName(n) \in AvailableInstruments

DensidadeErrors ==
    {"DensidadeError", "InputError", "CalculationError", "FileOperationError", "ModuleError"}

\* @handle_exceptions(show_dialog=False, rethrow=True)
SHOW_DIALOG == FALSE
RETHROW == TRUE

\* wrapper of handle_exceptions on an exception leaving func: what the caller gets
HandleExceptions(exc, show_dialog, rethrow) ==
    IF exc \in DensidadeErrors
    THEN [raised |-> rethrow, exc |-> IF rethrow THEN exc ELSE "none",
          dialog |-> IF show_dialog THEN "Erro" ELSE "none", returned |-> ~rethrow]
    ELSE [raised |-> rethrow, exc |-> IF rethrow THEN exc ELSE "none",
          dialog |-> IF show_dialog THEN "Erro inesperado" ELSE "none", returned |-> ~rethrow]

NoResult == [raised |-> FALSE, exc |-> "none", dialog |-> "none", returned |-> FALSE]
InFlight(exc) == [raised |-> FALSE, exc |-> exc, dialog |-> "none", returned |-> FALSE]

\* Inputs of calcular_metricas
InputNotes ==
    { Missing, None, List(<<>>), List(<<Str(<<"C", "4">>)>>),
      List(<<Str(<<"D", "b", "4">>), Str(<<"C", "up", "4", "+", "5", "0", "c">>)>>),
      List(<<Str(<<"C", "4">>), Str(<<>>)>>) }
InputDynamics ==
    {Missing, None, List(<<>>), List(<<"mf">>), List(<<"sfz">>), List(<<"pp", "ff">>),
     List(<<"p", "ff">>)}
InputInstruments ==
    {Missing, List(<<>>), List(<<"flauta">>), List(<<"Clarinete", "oboe">>), List(<<"oboe">>),
     List(<<"Flauta", "Clarinete">>)}
InputNumbers == {Missing, List(<<>>), List(<<1>>), List(<<2, 1>>)}

InputDatas ==
    [notes : InputNotes, dynamics : InputDynamics, instruments : InputInstruments,
     num_instruments : InputNumbers, use_psychoacoustic : BOOLEAN,
     use_perceptual_weighting : BOOLEAN]

\* Step 1: the four lists are fetched and validated
ValidarEntrada ==
    /\ mpc = "ready"
    /\ UNCHANGED densidades_instr
    /\ IF FaltamListas(input_data) \/ ~MesmoComprimento(input_data)
       THEN /\ mres' = InFlight("InputError")
            /\ mpc' = "except"
            /\ UNCHANGED mnotas
       ELSE /\ mnotas' = Get(input_data, "notes").items
            /\ mpc' = "step2"
            /\ UNCHANGED mres
    /\ UNCHANGED <<input_data, canonCalls, conversions, moduleLoads>>
    /\ UNCHANGED <<noteVars, storeVars, densVars>>
    /\ UNCHANGED <<calVars, fnVars, formVars, psyVars>>

\* Step 2: every note is rewritten to sharp form, cents kept
ConverterNotas ==
    /\ mpc = "step2"
    /\ UNCHANGED densidades_instr
    /\ mnotas' = [k \in 1..Len(mnotas) |-> CanonNota(mnotas[k])]
    /\ canonCalls' = canonCalls + Len(mnotas)
    /\ mpc' = "step3"
    /\ UNCHANGED <<input_data, conversions, moduleLoads, mres>>
    /\ UNCHANGED <<noteVars, storeVars, densVars>>
    /\ UNCHANGED <<calVars, fnVars, formVars, psyVars>>

\* Step 3: calcular_densidade_intervalar_psicoaustica(notas, ...) with lamb=None:
\* lambda is read from the store, the non-empty notes are converted for the
\* pairwise sum and, with use_psychoacoustic, every note once more.
DensidadeIntervalar ==
    /\ mpc = "step3"
    /\ UNCHANGED densidades_instr
    /\ storeReads' = storeReads + ReadsFor(NoLamb)
    /\ conversions' = conversions + Len(PitchesDI(mnotas))
                        + (IF input_data.use_psychoacoustic THEN Len(mnotas) ELSE 0)
    /\ mpc' = "step4"
    /\ UNCHANGED <<input_data, mnotas, canonCalls, moduleLoads, mres, store>>
    /\ UNCHANGED <<noteVars, densVars>>
    /\ mlamb' = Lamb(CarregarParametrosCalibrados(store))
    /\ UNCHANGED <<saves, loadOut, calOut, fnVars, formVars, psyVars>>

\* dynamic_levels of predict_intermediate_dynamics: the keys of its result
DynamicLevels == {"pppp", "ppp", "pp", "p", "mf", "f", "ff", "fff", "ffff"}

\* The loop of step 4, one dynamic: pp, mf, ff go to calcular_densidade, which
\* always returns a number; any other is looked up in the dict
\* predict_intermediate_dynamics returns, KeyError when it is not a key
DinamicaResolvida(dyn) == dyn \in {"pp", "mf", "ff"} \/ dyn \in DynamicLevels

\* Steps 5 to 12: pitches = [note_to_midi(n) for n in notas], the remaining
\* metrics, and the return of the results
ConcluirMetricas ==
    /\ mpc = "step5"
    /\ UNCHANGED densidades_instr
    /\ conversions' = conversions + Len(mnotas)
    /\ mres' = [raised |-> FALSE, exc |-> "none", dialog |-> "none", returned |-> TRUE]
    /\ mpc' = "returned"
    /\ UNCHANGED <<input_data, mnotas, canonCalls, moduleLoads>>
    /\ UNCHANGED <<noteVars, storeVars, densVars>>
    /\ UNCHANGED <<calVars, fnVars, formVars, psyVars>>

\* `except Exception: raise` of calcular_metricas, then the wrapper of
\* handle_exceptions
PropagarExcecao ==
    /\ mpc = "except"
    /\ UNCHANGED densidades_instr
    /\ mres' = HandleExceptions(mres.exc, SHOW_DIALOG, RETHROW)
    /\ mpc' = "raised"
    /\ UNCHANGED <<input_data, mnotas, canonCalls, conversions, moduleLoads>>
    /\ UNCHANGED <<noteVars, storeVars, densVars>>
    /\ UNCHANGED <<calVars, fnVars, formVars, psyVars>>

-----------------------------------------------------------------------------
(* Stand-alone functions, each called once on one argument: fname is the   *)
(* function, farg its arguments, fout what it returned.                    *)

\* instrumentos/flauta.py, instrumentos/clarinete.py: calcular_densidade.
\* A spectral table is represented by its keys (every entry holds pp, mf and
\* ff); a result names the entry it was read from: [kind, key, dyn], kind
\* "entry", "mean" (a mean of table values) or "const" (the float 5.0).
StandardDynamics == {"pp", "mf", "ff"}

FlautaKeys ==
    { b \o <<"4">> : b \in
        { <<"C">>, <<"C", "#", "-">>, <<"C", "#">>, <<"C", "#", "+">>,
          <<"D">>, <<"D", "#", "-">>, <<"D", "#">>, <<"D", "#", "+">>,
          <<"E">>, <<"E", "#", "-">>,
          <<"F">>, <<"F", "#", "-">>, <<"F", "#">>, <<"F", "#", "+">>,
          <<"G">>, <<"G", "#", "-">>, <<"G", "#">>, <<"G", "#", "+">>,
          <<"A">>, <<"A", "#", "-">>, <<"A", "#">>, <<"A", "#", "+">>,
          <<"B">>, <<"B", "#", "-">> } } \cup { <<"C", "5">> }

\* spectral_data of clarinete.py after normalize_note_string: every sharp name
\* and its quarter tone below, from D3 to B6, and C7
ClarineteKeys ==
    { NOTAS_CROMATICAS[i] \o q \o <<DigitChar(o)>> :
        i \in 1..12, q \in {<<>>, <<"-">>}, o \in 4..6 }
      \cup { NOTAS_CROMATICAS[i] \o q \o <<"3">> : i \in 3..12, q \in {<<>>, <<"-">>} }
      \cup { <<"C", "7">> }

Entry(key, dyn) == [kind |-> "entry", key |-> key, dyn |-> dyn]
Const5 == [kind |-> "const", key |-> <<>>, dyn |-> "none"]

\* re.match(r'([A-Ga-g][#b]?[-+]?)(\d+)', s) with signs = {"+", "-"}, and
\* re.match(r'([A-Ga-g][#b]?)(\d+)', s) with signs = {}: a match of a prefix
BaseOitava(s, signs) ==
    LET n1 == Run(s, 1, Letters, 1)
        n2 == Run(s, 1 + n1, AccAscii, 1)
        n3 == Run(s, 1 + n1 + n2, signs, 1)
        n4 == Run(s, 1 + n1 + n2 + n3, Digits, Len(s))
    IN IF n1 = 1 /\ n4 >= 1
       THEN [ok |-> TRUE, base |-> SubSeq(s, 1, n1 + n2 + n3),
             oitava |-> DigitsToNat(SubSeq(s, n1 + n2 + n3 + 1, n1 + n2 + n3 + n4))]
       ELSE [ok |-> FALSE, base |-> <<>>, oitava |-> 0]

\* candidatos: the keys whose base is that of the note; flauta.py compares
\* the bases as they are, clarinete.py their lower-case forms
Candidatos(keys, base, signs, lower) ==
    {k \in keys :
        LET mk == BaseOitava(k, signs)
        IN mk.ok /\ IF lower THEN Capitalize(mk.base) = Capitalize(base)
                    ELSE mk.base = base}

\* candidatos.sort(key=distance); candidatos[0][0]: the candidate whose octave
\* is nearest (in both tables the octaves of a base are consecutive, so no two
\* candidates are equally near)
NotaProxima(cands, oitava, signs) ==
    CHOOSE k \in cands : \A k2 \in cands :
        Abs(oitava - BaseOitava(k, signs).oitava) <= Abs(oitava - BaseOitava(k2, signs).oitava)

\* The dynamic used for a marking outside pp, mf, ff
DinamicaProxima(d) ==
    IF d \in StandardDynamics THEN d
    ELSE IF d \in {"pppp", "ppp", "p"} THEN "pp"
    ELSE IF d \in {"f", "fff", "ffff"} THEN "ff"
    ELSE "mf"

\* calcular_densidade(nota, dinamica) of flauta.py
CalcularDensidadeFlauta(v, d) ==
    IF ~v.isStr THEN Const5
    ELSE LET nota == Replace(v.chars, "?", "+")
             m == BaseOitava(nota, Signs)
             cands == Candidatos(FlautaKeys, m.base, Signs, FALSE)
             c4 == IF d \in StandardDynamics THEN Entry(<<"C", "4">>, d) ELSE Const5
         IN IF nota \in FlautaKeys /\ d \in StandardDynamics THEN Entry(nota, d)
            ELSE IF ~m.ok THEN c4
            ELSE IF cands # {}
                 THEN Entry(NotaProxima(cands, m.oitava, Signs), DinamicaProxima(d))
                 ELSE c4

\* calcular_densidade(nota, dinamica) of clarinete.py
CalcularDensidadeClarinete(v, d) ==
    IF ~v.isStr THEN Const5
    ELSE LET nota_norm == NormalizeNoteStringN(ExtractCentsN(v.chars).base)
             m == BaseOitava(nota_norm, {})
             cands == Candidatos(ClarineteKeys, m.base, {}, TRUE)
         IN IF nota_norm \in ClarineteKeys THEN Entry(nota_norm, DinamicaProxima(d))
            ELSE IF ~m.ok THEN Entry(<<"C", "4">>, DinamicaProxima(d))
            ELSE IF cands # {}
                 THEN Entry(NotaProxima(cands, m.oitava, {}), DinamicaProxima(d))
                 ELSE Entry(<<"C", "4">>, DinamicaProxima(d))

DensityNotes ==
    { Str(<<>>), Str(<<"C", "4">>), Str(<<"C", "6">>), Str(<<"c", "4">>),
      Str(<<"D", "b", "4">>), Str(<<"D", "-", "3">>), Str(<<"D", "-", "9">>),
      Str(<<"D", "#", "-", "9">>), Str(<<"C", "up", "4">>), Str(<<"H", "4">>),
      Str(<<"C", "4", "+", "5", "0", "c">>), NonString }

DensityDynamics == {"pp", "mf", "ff", "p", "f", "sfz"}

CallCalcularDensidade ==
    /\ fpc = "ready" /\ fname = "calcular_densidade"
    /\ fout' = IF farg.impl = "flauta"
               THEN CalcularDensidadeFlauta(farg.nota, farg.dinamica)
               ELSE CalcularDensidadeClarinete(farg.nota, farg.dinamica)
    /\ fpc' = "done"
    /\ UNCHANGED <<fname, farg>>
    /\ UNCHANGED <<noteVars, storeVars, densVars, metVars, calVars, formVars, psyVars>>

\* instrument_module.calcular_densidade(n, dyn) of the module loaded
CalcularDensidadeDe(modulo, n, dyn) ==
    IF modulo = "flauta" THEN CalcularDensidadeFlauta(n, dyn)
    ELSE CalcularDensidadeClarinete(n, dyn)

\* The body of the loop of step 4: the table value d of one note, looked up
\* for pp, mf and ff, and interpolated from the three for another dynamic
DensidadeNota(modulo, n, dyn) ==
    IF dyn \in {"pp", "mf", "ff"}
    THEN [kind |-> "lookup", dyn |-> dyn, points |-> <<CalcularDensidadeDe(modulo, n, dyn)>>]
    ELSE [kind |-> "interpolated", dyn |-> dyn,
          points |-> << CalcularDensidadeDe(modulo, n, "pp"),
                        CalcularDensidadeDe(modulo, n, "mf"),
                        CalcularDensidadeDe(modulo, n, "ff") >>]

\* densidades_instr.append(d * np.sqrt(num)): the product is kept as its factors
DensidadesInstr(modulo, notas, dinamicas, numeros_instr) ==
    [k \in 1..Len(notas) |->
        [modulo |-> modulo, d |-> DensidadeNota(modulo, notas[k], dinamicas[k]),
         num |-> numeros_instr[k]]]

\* Step 4: load_instrument_module(instrumentos[0]), ImportError when there is
\* no such module; then the density of every note at its dynamic, from the
\* module loaded
DensidadeInstrumento ==
    /\ mpc = "step4"
    /\ moduleLoads' = moduleLoads + 1
    /\ LET dinamicas == Get(input_data, "dynamics").items
           modulo == LowerName(Get(input_data, "instruments").items[1])
       IN IF ~ModuleFound(Get(input_data, "instruments").items[1])
          THEN mpc' = "except" /\ mres' = InFlight("ImportError")
               /\ UNCHANGED densidades_instr
          ELSE IF \E k \in 1..Len(dinamicas) : ~DinamicaResolvida(dinamicas[k])
          THEN mpc' = "except" /\ mres' = InFlight("KeyError")
               /\ UNCHANGED densidades_instr
          ELSE /\ mpc' = "step5" /\ UNCHANGED mres
               /\ densidades_instr' =
                     DensidadesInstr(modulo, mnotas, dinamicas,
                                     Get(input_data, "num_instruments").items)
    /\ UNCHANGED <<input_data, mnotas, canonCalls, conversions>>
    /\ UNCHANGED <<noteVars, storeVars, densVars>>
    /\ UNCHANGED <<calVars, fnVars, formVars, psyVars>>

\* psychoacoustic_corrections.py: critical_band_masking.  A Bark value and a
\* Bark distance are integers in hundredths of a Bark, masking_slope = 0.25 is
\* the fraction 1/4, and an amplitude after masking is the fraction num/den.
MaxPartials == 3

\* frequency_to_bark(midi_to_hz(p)) for the pitches of the model, to the
\* nearest hundredth: 2.5558, 2.8600, 3.7736, 8.8028
BarkOf == (60 :> 256) @@ (62 :> 286) @@ (67 :> 377) @@ (84 :> 880)

\* A plausible slip: an equally loud partial masks too
LouderOrEqual(aj, ai) == aj >= ai

\* if amps[j] > amps[i]
Louder(aj, ai) == aj > ai

\* masked_amps[i] *= (1 - (1 - bark_dist) * masking_slope), in hundredths:
\* 1 - (100 - d)/400 = (300 + d)/400
Attenuate(r, d) == [num |-> r.num * (300 + d), den |-> r.den * 400]

\* for j in range(len(freqs)): the inner loop for one i, from j onwards
RECURSIVE MaskingLoop(_, _, _, _, _)
MaskingLoop(pitches, amps, i, j, r) ==
    IF j > Len(pitches) THEN r
    ELSE LET d == Abs(BarkOf[pitches[i]] - BarkOf[pitches[j]])
         IN MaskingLoop(pitches, amps, i, j + 1,
                IF i # j /\ d < 100 /\ Louder(amps[j], amps[i]) THEN Attenuate(r, d) ELSE r)

\* critical_band_masking(pitches, amplitudes) with the default masking_slope
CriticalBandMasking(pitches, amps) ==
    IF Len(pitches) = 0 \/ Len(amps) = 0 THEN <<>>
    ELSE [i \in 1..Len(pitches) |->
            MaskingLoop(pitches, amps, i, 1, [num |-> amps[i], den |-> 1])]

\* pitches and amplitudes of the same length; amplitudes are not negative
MaskingArgs ==
    UNION { [pitches : [1..n -> DOMAIN BarkOf], amplitudes : [1..n -> 0..2]] :
              n \in 0..MaxPartials }

CallCriticalBandMasking ==
    /\ fpc = "ready" /\ fname = "critical_band_masking"
    /\ fout' = CriticalBandMasking(farg.pitches, farg.amplitudes)
    /\ fpc' = "done"
    /\ UNCHANGED <<fname, farg>>
    /\ UNCHANGED <<noteVars, storeVars, densVars, metVars, calVars, formVars, psyVars>>

\* density_calculations.py: get_register_weight(midi_note), the pitch in cents
\* and the weight in hundredths

\* a limit belongs to the band below it: "midi_note <= limit"
AtMost(midi_note, limit) == midi_note <= limit

\* "midi_note < limit" of the elif chain
Below(midi_note, limit) == midi_note < limit

GetRegisterWeight(midi_note) ==
    IF Below(midi_note, 3600) THEN 50
    ELSE IF Below(midi_note, 4800) THEN 65
    ELSE IF Below(midi_note, 6000) THEN 80
    ELSE IF Below(midi_note, 7200) THEN 100
    ELSE IF Below(midi_note, 8400) THEN 95
    ELSE IF Below(midi_note, 9600) THEN 85
    ELSE 70

\* pesos_registro = [get_register_weight(nota) for nota in notas]
PesosRegistro(notas) == [k \in 1..Len(notas) |-> GetRegisterWeight(notas[k])]

\* The limits of the bands, and the number of the band a pitch lies in
\* (0 for the band under 36, 6 for the band from 96)
RegisterLimits == {3600, 4800, 6000, 7200, 8400, 9600}

RegisterBand(midi_note) == Cardinality({b \in RegisterLimits : b <= midi_note})

\* Pitches on and just under every limit, and between the limits
RegisterPitches ==
    {2400, 3500, 3599, 3600, 4700, 4800, 5900, 6000, 6050, 7100, 7200, 8300, 8400,
     9500, 9600, 10800}

MaxRegisterNotes == 3

\* Ascending lists of pitches
RegisterArgs ==
    { ns \in UNION {[1..n -> RegisterPitches] : n \in 0..MaxRegisterNotes} :
        \A k \in 1..(Len(ns) - 1) : ns[k] < ns[k + 1] }

CallGetRegisterWeight ==
    /\ fpc = "ready" /\ fname = "get_register_weight"
    /\ fout' = PesosRegistro(farg)
    /\ fpc' = "done"
    /\ UNCHANGED <<fname, farg>>
    /\ UNCHANGED <<noteVars, storeVars, densVars, metVars, calVars, formVars, psyVars>>

\* spectral_analysis.py: calculate_chroma_vector(pitches, amplitudes).  A
\* float handed in is [nan, val]: NaN, or the number val (a pitch in cents,
\* an amplitude a natural number); an entry of the result is the fraction
\* num / den.
NaN == [nan |-> TRUE, val |-> 0]

Float(v) == [nan |-> FALSE, val |-> v]

\* the argument amplitudes left out
NoAmplitudes == [given |-> FALSE, vals |-> <<>>]

Amplitudes(vals) == [given |-> TRUE, vals |-> vals]

\* _safe_array(a): np.nan_to_num(np.asarray(a, dtype=float)), NaN becomes 0
SafeArray(a) == [k \in 1..Len(a) |-> IF a[k].nan THEN 0 ELSE a[k].val]

\* np.ones_like(pitches)
OnesLike(a) == [k \in 1..Len(a) |-> 1]

\* round(p) of a float: the nearest integer, a half going to the even one
Round(p) ==
    LET q == p \div 100
        r == p % 100
    IN IF r < 50 THEN q
       ELSE IF r > 50 THEN q + 1
       ELSE IF q % 2 = 0 THEN q ELSE q + 1

\* int(round(p)) % 12
ChromaIndex(p) == Round(p) % 12

\* chroma[...] = a: the amplitude replaces what the bin holds
Overwrite(c, a) == a

\* chroma[...] += a
Accumulate(c, a) == c + a

\* for p, a in zip(pitches, amps): the bins after the pairs k, k+1, ...;
\* the bins are numbered 0 to 11 and idx records the bin each pair went to
ChromaLoop(pitches, amps) ==
    LET n == Min(Len(pitches), Len(amps))
        F[k \in 0..n] ==
            IF k = 0 THEN [chroma |-> [b \in 0..11 |-> 0], idx |-> <<>>]
            ELSE LET b == ChromaIndex(pitches[k])
                 IN [chroma |-> [F[k - 1].chroma EXCEPT ![b] = Accumulate(@, amps[k])],
                     idx |-> Append(F[k - 1].idx, b)]
    IN F[n]

SumBins(chroma) ==
    LET S[b \in 0..12] == IF b = 0 THEN 0 ELSE S[b - 1] + chroma[b - 1]
    IN S[12]

\* total = chroma.sum(); if total > 0: chroma /= total; return chroma.tolist()
Normalise(chroma) ==
    LET total == SumBins(chroma)
    IN [b \in 0..11 |-> [num |-> chroma[b], den |-> IF total > 0 THEN total ELSE 1]]

CalculateChromaVector(pitches, amplitudes) ==
    LET ps == SafeArray(pitches)
        amps == IF amplitudes.given THEN SafeArray(amplitudes.vals) ELSE OnesLike(ps)
        l == ChromaLoop(ps, amps)
    IN [chroma |-> Normalise(l.chroma), idx |-> l.idx, amps |-> amps]

\* what the pairs sent to bin b add up to
BinEnergy(idx, amps, b) ==
    LET S[k \in 0..Len(idx)] ==
            IF k = 0 THEN 0 ELSE S[k - 1] + (IF idx[k] = b THEN amps[k] ELSE 0)
    IN S[Len(idx)]

MaxChroma == 2

ChromaPitches == {Float(p) : p \in {-50, 5950, 6000, 6050, 6150, 6151, 7200}}

ChromaAmplitudes == {Float(0), Float(1), Float(2), NaN}

ChromaArgs ==
    [ pitches : UNION {[1..n -> ChromaPitches] : n \in 0..MaxChroma},
      amplitudes : {NoAmplitudes} \cup
                   {Amplitudes(v) : v \in UNION {[1..n -> ChromaAmplitudes] : n \in 0..MaxChroma}} ]

CallCalculateChromaVector ==
    /\ fpc = "ready" /\ fname = "calculate_chroma_vector"
    /\ fout' = CalculateChromaVector(farg.pitches, farg.amplitudes)
    /\ fpc' = "done"
    /\ UNCHANGED <<fname, farg>>
    /\ UNCHANGED <<noteVars, storeVars, densVars, metVars, calVars, formVars, psyVars>>

-----------------------------------------------------------------------------
(* density_calculations.py ("DC"): the metrics of a list of MIDI values.   *)
(* A MIDI value is a whole number of cents; a metric is the exact fraction *)
(* [num, den] in lowest terms; a call gives [raised, exc, val].            *)

RECURSIVE GCD(_, _)
GCD(a, b) == IF b = 0 THEN a ELSE GCD(b, a % b)

\* the fraction n / d, d # 0
Q(n, d) ==
    LET g == GCD(Abs(n), Abs(d))
        sgn == IF d < 0 THEN -1 ELSE 1
    IN IF n = 0 THEN [num |-> 0, den |-> 1]
       ELSE [num |-> sgn * (n \div g), den |-> sgn * (d \div g)]

QAdd(a, b) == Q(a.num * b.den + b.num * a.den, a.den * b.den)

QSub(a, b) == Q(a.num * b.den - b.num * a.den, a.den * b.den)

QMul(a, b) == Q(a.num * b.num, a.den * b.den)

QLe(a, b) == a.num * b.den <= b.num * a.den

QAbs(a) == [num |-> Abs(a.num), den |-> a.den]

QMax(a, b) == IF QLe(a, b) THEN b ELSE a

QMin(a, b) == IF QLe(a, b) THEN a ELSE b

Value(v) == [raised |-> FALSE, exc |-> "none", val |-> v]

Thrown(exc) == [raised |-> TRUE, exc |-> exc, val |-> Q(0, 1)]

\* a / b of two Python floats
QDiv(a, b) ==
    IF b.num = 0 THEN Thrown("ZeroDivisionError")
    ELSE Value(Q(a.num * b.den, a.den * b.num))

\* a / b with a of type np.float64: a zero divisor gives inf or nan (written
\* with den = 0) and a warning, no exception
NpDiv(a, b) ==
    IF b.num = 0 THEN Value([num |-> a.num, den |-> 0])
    ELSE Value(Q(a.num * b.den, a.den * b.num))

\* sum(xs) and np.mean(xs) of a non-empty list of fractions
QSum(xs) ==
    LET S[k \in 0..Len(xs)] == IF k = 0 THEN Q(0, 1) ELSE QAdd(S[k - 1], xs[k])
    IN S[Len(xs)]

QMean(xs) == QMul(QSum(xs), Q(1, Len(xs)))

\* sorted(notas)
RECURSIVE Sorted(_)
Sorted(notas) ==
    IF Len(notas) <= 1 THEN notas
    ELSE LET rest == Sorted(Tail(notas))
             x == Head(notas)
             lower == SelectSeq(rest, LAMBDA y : y < x)
             upper == SelectSeq(rest, LAMBDA y : y >= x)
         IN lower \o <<x>> \o upper

\* calcular_massa(notas)
CalcularMassa(notas) == Q(Len(notas), 1)

\* the volume as it is, without a minimum
RawVolume(volume, min_volume) == volume

\* max(volume, min_volume)
FloorVolume(volume, min_volume) == QMax(volume, min_volume)

\* calcular_volume(notas), in semitones
CalcularVolume(notas) ==
    IF Len(notas) = 0 THEN Q(1, 1)
    ELSE LET notas_ordenadas == Sorted(notas)
             volume == Q(notas_ordenadas[Len(notas)] - notas_ordenadas[1], 100)
         IN FloorVolume(volume, Q(1, 2))

\* calcular_densidade(notas, usar_ponderacao_perceptual)
CalcularDensidadeDC(notas, usar) ==
    IF Len(notas) = 0 THEN Value(Q(0, 1))
    ELSE LET massa == IF usar
                      THEN QSum([k \in 1..Len(notas) |-> Q(GetRegisterWeight(notas[k]), 100)])
                      ELSE CalcularMassa(notas)
             volume == CalcularVolume(notas)
         IN IF volume.num = 0 THEN Value(Q(0, 1)) ELSE QDiv(massa, volume)

\* calcular_densidade_intervalar(notas, usar_ponderacao_perceptual) of
\* density_calculations.py
CalcularDensidadeIntervalarDC(notas, usar) ==
    IF Len(notas) < 2 THEN Value(Q(0, 1))
    ELSE LET o == Sorted(notas)
             n == Len(o)
             intervalo_total == Q(o[n] - o[1], 100)
             ponderados ==
                 [i \in 1..(n - 1) |->
                    QDiv(Q(o[i + 1] - o[i], 100),
                         Q(GetRegisterWeight(o[i]) + GetRegisterWeight(o[i + 1]), 200))]
             adjacentes == [i \in 1..(n - 1) |-> Q(o[i + 1] - o[i], 100)]
         IN IF usar /\ \E i \in 1..(n - 1) : ponderados[i].raised
            THEN Thrown("ZeroDivisionError")
            ELSE LET media == IF usar
                              THEN QMean([i \in 1..(n - 1) |-> ponderados[i].val])
                              ELSE QMean(adjacentes)
                 IN Value(QAdd(QMul(Q(7, 10), media), QMul(Q(3, 10), intervalo_total)))

\* calcular_densidade_ponderada(notas, pesos=None)
CalcularDensidadePonderada(notas) ==
    IF Len(notas) = 0 THEN Value(Q(0, 1))
    ELSE LET n == Len(notas)
             pesos_norm == [k \in 1..n |-> Q(1, n)]
             massa_ponderada == QSum([k \in 1..n |-> QMul(pesos_norm[k], Q(n, 1))])
         IN NpDiv(massa_ponderada, CalcularVolume(notas))

\* calcular_distribuicao_espacial(notas)
CalcularDistribuicaoEspacial(notas) ==
    IF Len(notas) < 2 THEN Value(Q(0, 1))
    ELSE LET o == Sorted(notas)
             n == Len(o)
             intervalos == [i \in 1..(n - 1) |-> Q(o[i + 1] - o[i], 100)]
             intervalo_ideal == Q(o[n] - o[1], 100 * (n - 1))
         IN IF intervalo_ideal.num > 0
            THEN LET desvios == [i \in 1..(n - 1) |->
                                   QDiv(QAbs(QSub(intervalos[i], intervalo_ideal)),
                                        intervalo_ideal).val]
                     uniformidade == QSub(Q(1, 1), QMean(desvios))
                 IN Value(QMax(Q(0, 1), QMin(Q(1, 1), uniformidade)))
            ELSE Value(Q(0, 1))

\* the three lists of calcular_densidade_por_registro
Registros(notas) ==
    [grave |-> SelectSeq(notas, LAMBDA x : x < 4800),
     medio |-> SelectSeq(notas, LAMBDA x : 4800 <= x /\ x < 7200),
     agudo |-> SelectSeq(notas, LAMBDA x : x >= 7200)]

\* calcular_densidade_por_registro(notas, usar_ponderacao_perceptual)
CalcularDensidadePorRegistro(notas, usar) ==
    IF Len(notas) = 0
    THEN [k \in {"grave", "medio", "agudo", "total"} |-> Value(Q(0, 1))]
    ELSE LET registros == Registros(notas)
         IN [k \in {"grave", "medio", "agudo", "total"} |->
               IF k = "total" THEN CalcularDensidadeDC(notas, usar)
               ELSE IF Len(registros[k]) > 0 THEN CalcularDensidadeDC(registros[k], usar)
               ELSE Value(Q(0, 1))]

\* analisar_densidade_completa(notas, pesos=None, usar_ponderacao_perceptual):
\* the dict returned, or the first exception of the calls in their order
AnalisarDensidadeCompleta(notas, usar) ==
    LET reg == CalcularDensidadePorRegistro(notas, usar)
        calls == << CalcularDensidadeDC(notas, FALSE),
                    CalcularDensidadeIntervalarDC(notas, usar),
                    CalcularDensidadePonderada(notas),
                    CalcularDistribuicaoEspacial(notas),
                    Value(CalcularMassa(notas)),
                    Value(CalcularVolume(notas)),
                    reg["grave"], reg["medio"], reg["agudo"], reg["total"] >>
        names == << "densidade_basica", "densidade_intervalar", "densidade_ponderada",
                    "distribuicao_espacial", "massa", "volume", "densidade_grave",
                    "densidade_medio", "densidade_agudo", "densidade_total" >>
        failed == {k \in 1..Len(calls) : calls[k].raised}
    IN IF failed # {}
       THEN [raised |-> TRUE,
             exc |-> calls[CHOOSE k \in failed : \A j \in failed : k <= j].exc,
             resultado |-> <<>>]
       ELSE [raised |-> FALSE, exc |-> "none",
             resultado |-> [k \in {names[i] : i \in 1..Len(names)} |->
                              calls[CHOOSE i \in 1..Len(names) : names[i] = k].val]]

MaxMidi == 3

MidiValues == {3500, 4700, 4800, 6000, 6050, 7100, 7200, 9600}

AnalisarArgs ==
    [ notas : UNION {[1..n -> MidiValues] : n \in 1..MaxMidi}, usar : BOOLEAN ]

CallAnalisarDensidadeCompleta ==
    /\ fpc = "ready" /\ fname = "analisar_densidade_completa"
    /\ fout' = AnalisarDensidadeCompleta(farg.notas, farg.usar)
    /\ fpc' = "done"
    /\ UNCHANGED <<fname, farg>>
    /\ UNCHANGED <<noteVars, storeVars, densVars, metVars, calVars, formVars, psyVars>>

\* Step 2 of calcular_metricas on one note, and what note_to_midi
\* (microtonal.py) makes of the note before and after it
CanonicalPitch(v, sharpNote, canonNote) ==
    [valid |-> IsValidNoteM(v), sharp |-> sharpNote, canon |-> canonNote,
     midi |-> NoteToMidiM(v), midiSharp |-> NoteToMidiM(sharpNote),
     midiCanon |-> NoteToMidiM(canonNote)]

CallConverterParaSustenido ==
    /\ fpc = "ready" /\ fname = "converter_para_sustenido"
    /\ fout' = CanonicalPitch(farg, ConverterParaSustenido(farg), CanonNota(farg))
    /\ fpc' = "done"
    /\ UNCHANGED <<fname, farg>>
    /\ UNCHANGED <<noteVars, storeVars, densVars, metVars, calVars, formVars, psyVars>>

\* densidade_intervalar.py, calibration.py: CONSONANCE_RATINGS, the ratings in
\* thousandths; the keys are commented "unisono", "M2/m7", "m3/M6", "M3/m6",
\* "P4/P5", "TT"
CONSONANCE_RATINGS ==
    (0 :> 1000) @@ (2 :> -582) @@ (3 :> 594) @@ (4 :> 386) @@ (5 :> 1240) @@ (6 :> -453)

\* calibrar_lambda.objetivo: the chord built for one key of dados_experimentais,
\* "C4" and f"{'CDEFGAB'[intervalo % 7]}{4 + (intervalo // 7)}"
ObjetivoNotas(intervalo) ==
    IF intervalo = 0 THEN << <<"C", "4">>, <<"C", "4">> >>
    ELSE << <<"C", "4">>,
            << <<"C", "D", "E", "F", "G", "A", "B">>[(intervalo % 7) + 1],
               DigitChar(4 + (intervalo \div 7)) >> >>

\* The chord of one pass of the loop of objetivo and the pitches
\* calcular_densidade_intervalar gives its notes
CallObjetivo ==
    /\ fpc = "ready" /\ fname = "objetivo"
    /\ fout' = [notas |-> ObjetivoNotas(farg),
                midi |-> [k \in 1..2 |-> NoteToMidiM(Str(ObjetivoNotas(farg)[k]))]]
    /\ fpc' = "done"
    /\ UNCHANGED <<fname, farg>>
    /\ UNCHANGED <<noteVars, storeVars, densVars, metVars, calVars, formVars, psyVars>>

\* is_valid_note(nota) beside note_to_midi(nota) on the same string
CallIsValidNoteParsed ==
    /\ fpc = "ready" /\ fname = "is_valid_note"
    /\ fout' = [valid |-> IsValidNoteM(farg), midi |-> NoteToMidiM(farg),
                parsed |-> NoteToMidiParsesM(farg)]
    /\ fpc' = "done"
    /\ UNCHANGED <<fname, farg>>
    /\ UNCHANGED <<noteVars, storeVars, densVars, metVars, calVars, formVars, psyVars>>

\* microtonal.py: the ESCALA_MICROTONAL literal, pitch name -> step 1..24
EscalaMicrotonalLiteral ==
    (<<"C">> :> 1) @@ (<<"C", "#", "-">> :> 2) @@ (<<"C", "#">> :> 3) @@
    (<<"C", "#", "+">> :> 4) @@
    (<<"D">> :> 5) @@ (<<"D", "#", "-">> :> 6) @@ (<<"D", "#">> :> 7) @@
    (<<"D", "#", "+">> :> 8) @@
    (<<"E">> :> 9) @@ (<<"E", "#", "-">> :> 10) @@
    (<<"F">> :> 11) @@ (<<"F", "#", "-">> :> 12) @@ (<<"F", "#">> :> 13) @@
    (<<"F", "#", "+">> :> 14) @@
    (<<"G">> :> 15) @@ (<<"G", "#", "-">> :> 16) @@ (<<"G", "#">> :> 17) @@
    (<<"G", "#", "+">> :> 18) @@
    (<<"A">> :> 19) @@ (<<"A", "#", "-">> :> 20) @@ (<<"A", "#">> :> 21) @@
    (<<"A", "#", "+">> :> 22) @@
    (<<"B">> :> 23) @@ (<<"B", "#", "-">> :> 24) @@
    (<<"C", "b", "+">> :> 24) @@ (<<"D", "b", "+">> :> 2) @@ (<<"D", "b">> :> 3) @@
    (<<"D", "b", "-">> :> 4) @@
    (<<"E", "b", "+">> :> 6) @@ (<<"E", "b">> :> 7) @@ (<<"E", "b", "-">> :> 8) @@
    (<<"F", "b", "+">> :> 10) @@
    (<<"G", "b", "+">> :> 12) @@ (<<"G", "b">> :> 13) @@ (<<"G", "b", "-">> :> 14) @@
    (<<"A", "b", "+">> :> 16) @@ (<<"A", "b">> :> 17) @@ (<<"A", "b", "-">> :> 18) @@
    (<<"B", "b", "+">> :> 20) @@ (<<"B", "b">> :> 21) @@ (<<"B", "b", "-">> :> 22) @@
    (<<"C", "+">> :> 2) @@ (<<"D", "+">> :> 6) @@ (<<"E", "+">> :> 10) @@
    (<<"F", "+">> :> 12) @@ (<<"G", "+">> :> 16) @@ (<<"A", "+">> :> 20) @@
    (<<"B", "+">> :> 24) @@
    (<<"C", "-">> :> 24) @@ (<<"D", "-">> :> 4) @@ (<<"E", "-">> :> 8) @@
    (<<"F", "-">> :> 10) @@ (<<"G", "-">> :> 14) @@ (<<"A", "-">> :> 18) @@
    (<<"B", "-">> :> 22)

\* ESCALA_MICROTONAL after the loop that adds the arrow spellings: a key with
\* "+" gets a twin with the down arrow, a key with "-" one with the up arrow
ESCALA_MICROTONAL ==
    LET plus == {k \in DOMAIN EscalaMicrotonalLiteral : Contains(k, "+") /\ Len(k) <= 3}
        minus == {k \in DOMAIN EscalaMicrotonalLiteral :
                     ~Contains(k, "+") /\ Contains(k, "-") /\ Len(k) <= 3}
    IN EscalaMicrotonalLiteral
       @@ [k \in {Replace(n, "+", "down") : n \in plus} |->
              EscalaMicrotonalLiteral[Replace(k, "down", "+")]]
       @@ [k \in {Replace(n, "-", "up") : n \in minus} |->
              EscalaMicrotonalLiteral[Replace(k, "up", "-")]]

TAMANHO_OITAVA_MICROTONAL == 24

\* re.match: the pattern need not reach the end of the string
RECURSIVE MatchPrefixFrom(_, _, _, _)
MatchPrefixFrom(s, i, pat, k) ==
    IF k > Len(pat) THEN [ok |-> TRUE, caps |-> <<>>]
    ELSE LET n == Run(s, i, pat[k].cs, pat[k].hi) IN
         IF n < pat[k].lo THEN [ok |-> FALSE, caps |-> <<>>]
         ELSE LET r == MatchPrefixFrom(s, i + n, pat, k + 1) IN
              [ok |-> r.ok, caps |-> <<SubSeq(s, i, i + n - 1)>> \o r.caps]

\* ([A-Ga-g][#<sharp>b]?[-+]?)(\d+)
PatPosicao == <<One(Letters), Opt(AccAny), Opt(Signs), Slot(Digits, 1, 9)>>

\* nota_base.upper()
UpperAll(s) == [i \in 1..Len(s) |-> Upper(s[i])]

\* preprocess_nota(nota): the up arrow becomes "-", the down arrow "+"
PreprocessNota(nota) ==
    IF nota = <<>> THEN nota
    ELSE LET ec == ExtractCentsM(nota)
             processed_note == Replace(Replace(ec.base, "up", "-"), "down", "+")
         IN IF ec.cents # 0 THEN processed_note \o CentsSuffix(ec.cents)
            ELSE processed_note

\* nota_para_posicao(nota) for a string: the position in hundredths of a step
\* of the 24-step scale, or the ValueError raised
NotaParaPosicao(v) ==
    LET nota == Replace(v.chars, "sharp", "#")
        ec == ExtractCentsM(nota)
        base_note == PreprocessNota(ec.base)
        match == MatchPrefixFrom(base_note, 1, PatPosicao, 1)
        nota_base == Replace(UpperAll(Caps(match, 1, 3)), "sharp", "#")
    IN IF ~match.ok THEN Thrown("ValueError")
       ELSE IF nota_base \notin DOMAIN ESCALA_MICROTONAL THEN Thrown("ValueError")
       ELSE Value((ESCALA_MICROTONAL[nota_base]
                     + TAMANHO_OITAVA_MICROTONAL * DigitsToNat(match.caps[4])) * 100
                  + 2 * ec.cents)

\* The reference notes the positions are measured from
PosicaoReferences == { <<"C", "4">>, <<"F", "#", "3">> }

PosicaoArgs == [a : {Str(n) : n \in InputStrings}, b : {Str(n) : n \in PosicaoReferences}]

\* nota_para_posicao and note_to_midi of two notes
CallNotaParaPosicao ==
    /\ fpc = "ready" /\ fname = "nota_para_posicao"
    /\ fout' = [valid |-> IsValidNoteM(farg.a) /\ IsValidNoteM(farg.b),
                posA |-> NotaParaPosicao(farg.a), posB |-> NotaParaPosicao(farg.b),
                midiA |-> NoteToMidiM(farg.a), midiB |-> NoteToMidiM(farg.b)]
    /\ fpc' = "done"
    /\ UNCHANGED <<fname, farg>>
    /\ UNCHANGED <<noteVars, storeVars, densVars, metVars, calVars, formVars, psyVars>>

\* spectral_analysis.py: calculate_harmonic_ratio(pitches, amplitudes), the
\* pitches in cents.  np.isclose(x, 0, atol=0.25) is |x| <= 0.25 (the relative
\* tolerance is multiplied by the zero), and intervals % 12 lies in [0, 12).
IsClose(x, atol) == Abs(x) <= atol

\* pitches.min()
RECURSIVE MinOf(_)
MinOf(xs) == IF Len(xs) = 1 THEN xs[1] ELSE Min(xs[1], MinOf(Tail(xs)))

\* amps[mask].sum()
RECURSIVE MaskedSum(_, _)
MaskedSum(amps, mask) ==
    IF Len(amps) = 0 THEN 0
    ELSE (IF mask[1] THEN amps[1] ELSE 0) + MaskedSum(Tail(amps), Tail(mask))

\* The result with the arrays it was computed from; the pitches of the model
\* are finite or NaN, and _safe_array has turned a NaN into 0.0 before the
\* mask of valid values is taken, so that mask keeps every entry
CalculateHarmonicRatio(pitches_in, amplitudes) ==
    IF Len(pitches_in) = 0
    THEN [ratio |-> Q(0, 1), intervals |-> <<>>, harmonic_mask |-> <<>>, amps |-> <<>>]
    ELSE LET ps == SafeArray(pitches_in)
             amps == IF ~amplitudes.given THEN OnesLike(ps) ELSE SafeArray(amplitudes.vals)
             fundamental == MinOf(ps)
             intervals == [k \in 1..Len(ps) |-> ps[k] - fundamental]
             harmonic_mask == [k \in 1..Len(ps) |-> IsClose(intervals[k] % 1200, 25)]
             harm_energy == MaskedSum(amps, harmonic_mask)
             total_energy == MaskedSum(amps, [k \in 1..Len(ps) |-> TRUE])
         IN [ratio |-> IF total_energy > 0 THEN Q(harm_energy, total_energy) ELSE Q(0, 1),
             intervals |-> intervals, harmonic_mask |-> harmonic_mask, amps |-> amps]

MaxHarmonic == 2

HarmonicPitches == {Float(p) : p \in {4800, 6000, 7170, 7180, 7200, 7225, 7226}} \cup {NaN}

HarmonicAmplitudes == {Float(0), Float(1), Float(2), NaN}

\* an amplitude for every pitch, or no amplitudes
HarmonicArgs ==
    UNION { [pitches : [1..n -> HarmonicPitches],
             amplitudes : {NoAmplitudes} \cup
                          {Amplitudes(v) : v \in [1..n -> HarmonicAmplitudes]}] :
              n \in 0..MaxHarmonic }

CallCalculateHarmonicRatio ==
    /\ fpc = "ready" /\ fname = "calculate_harmonic_ratio"
    /\ fout' = CalculateHarmonicRatio(farg.pitches, farg.amplitudes)
    /\ fpc' = "done"
    /\ UNCHANGED <<fname, farg>>
    /\ UNCHANGED <<noteVars, storeVars, densVars, metVars, calVars, formVars, psyVars>>

-----------------------------------------------------------------------------
(* The psychoacoustic stages of calcular_densidade_intervalar_psicoaustica, *)
(* which densidade_intervalar.py and data_processor.py each define.  A      *)
(* frequency is an integer number of hertz, an amplitude is the fraction    *)
(* num/den.  The roughness is kept as its terms: the pairs that             *)
(* contribute and the weight min(amps[i], amps[j]) of each; the curve value *)
(* that multiplies the weight depends on the two pitches only.              *)

MaxPsyNotes == 3

\* midi_to_hz(p) for the pitches of the model, to the nearest hertz:
\* 261.6256, 293.6648, 391.9954, 1046.5023
HzOf == (60 :> 262) @@ (62 :> 294) @@ (67 :> 392) @@ (84 :> 1047)

\* np.ones(len(pitches))
Ones(n) == [k \in 1..n |-> 1]

\* psychoacoustic_corrections.py: equal_loudness_correction(frequency)
EqualLoudnessCorrection(frequency) ==
    IF frequency <= 0 THEN Q(1, 1)
    ELSE LET correction ==
                 IF frequency < 200 THEN Q(600 - frequency, 400)
                 ELSE IF frequency < 1000 THEN Q(5000 - frequency, 4000)
                 ELSE IF frequency > 4000
                 THEN LET boost == Q(40000 + 3 * (frequency - 4000), 40000)
                      IN IF frequency > 10000
                         THEN QMul(boost, Q(20000 - frequency, 10000))
                         ELSE boost
                 ELSE Q(1, 1)
         IN QMax(Q(1, 10), correction)

\* psychoacoustic_corrections.py: apply_loudness_correction(pitches, amplitudes)
ApplyLoudnessCorrection(ps, amplitudes) ==
    IF Len(ps) = 0 THEN <<>>
    ELSE [k \in 1..Min(Len(ps), Len(amplitudes)) |->
            QMul(amplitudes[k], EqualLoudnessCorrection(HzOf[ps[k]]))]

\* relative_diff = freq_diff / freq_mean * 100 < 30
RoughPair(fi, fj) == fi + fj # 0 /\ 200 * Abs(fi - fj) < 30 * (fi + fj)

\* psychoacoustic_corrections.py: calculate_roughness(pitches, amplitudes)
CalculateRoughness(ps, amplitudes) ==
    IF Len(ps) < 2 THEN {}
    ELSE { [i |-> i, j |-> j, weight |-> QMin(amplitudes[i], amplitudes[j])] :
             <<i, j>> \in { q \in (1..Len(ps)) \X (1..Len(ps)) :
                              q[1] < q[2] /\ RoughPair(HzOf[ps[q[1]]], HzOf[ps[q[2]]]) } }

PsyPitches == UNION { [1..n -> DOMAIN HzOf] : n \in 0..MaxPsyNotes }

\* densidade_intervalar.py: 2.1 Mascaramento de banda critica
MascaramentoDI ==
    /\ ppc = "start" /\ psyImpl = "DI"
    /\ amps_masked' = CriticalBandMasking(valid_pitches, Ones(Len(valid_pitches)))
    /\ stages' = Append(stages, "masking")
    /\ ppc' = "masked"
    /\ UNCHANGED <<psyImpl, valid_pitches, corrected_amplitudes, rough_arg, roughness>>
    /\ UNCHANGED <<noteVars, storeVars, densVars, metVars, calVars, fnVars, formVars>>

\* densidade_intervalar.py: 2.2 Roughness, of amps_masked
RoughnessDI ==
    /\ ppc = "masked" /\ psyImpl = "DI"
    /\ rough_arg' = amps_masked
    /\ roughness' = CalculateRoughness(valid_pitches, amps_masked)
    /\ stages' = Append(stages, "roughness")
    /\ ppc' = "rough"
    /\ UNCHANGED <<psyImpl, valid_pitches, amps_masked, corrected_amplitudes>>
    /\ UNCHANGED <<noteVars, storeVars, densVars, metVars, calVars, fnVars, formVars>>

\* densidade_intervalar.py: 2.3 Loudness, of amps_masked; the product of the
\* gains follows
LoudnessDI ==
    /\ ppc = "rough" /\ psyImpl = "DI"
    /\ corrected_amplitudes' = ApplyLoudnessCorrection(valid_pitches, amps_masked)
    /\ stages' = Append(stages, "loudness")
    /\ ppc' = "done"
    /\ UNCHANGED <<psyImpl, valid_pitches, amps_masked, rough_arg, roughness>>
    /\ UNCHANGED <<noteVars, storeVars, densVars, metVars, calVars, fnVars, formVars>>

\* data_processor.py: fewer than two valid pitches, return 0.0
RetornarZeroDP ==
    /\ ppc = "start" /\ psyImpl = "DP"
    /\ Len(valid_pitches) < 2
    /\ ppc' = "done"
    /\ UNCHANGED <<psyImpl, valid_pitches, amps_masked, corrected_amplitudes, rough_arg,
                   roughness, stages>>
    /\ UNCHANGED <<noteVars, storeVars, densVars, metVars, calVars, fnVars, formVars>>

\* data_processor.py: 1. Mascaramento de banda critica
MascaramentoDP ==
    /\ ppc = "start" /\ psyImpl = "DP"
    /\ Len(valid_pitches) >= 2
    /\ amps_masked' = CriticalBandMasking(valid_pitches, Ones(Len(valid_pitches)))
    /\ stages' = Append(stages, "masking")
    /\ ppc' = "masked"
    /\ UNCHANGED <<psyImpl, valid_pitches, corrected_amplitudes, rough_arg, roughness>>
    /\ UNCHANGED <<noteVars, storeVars, densVars, metVars, calVars, fnVars, formVars>>

\* data_processor.py: 2. Correcao de loudness, of masked_amplitudes
LoudnessDP ==
    /\ ppc = "masked" /\ psyImpl = "DP"
    /\ corrected_amplitudes' = ApplyLoudnessCorrection(valid_pitches, amps_masked)
    /\ stages' = Append(stages, "loudness")
    /\ ppc' = "loud"
    /\ UNCHANGED <<psyImpl, valid_pitches, amps_masked, rough_arg, roughness>>
    /\ UNCHANGED <<noteVars, storeVars, densVars, metVars, calVars, fnVars, formVars>>

\* data_processor.py: 3. Calcular roughness, of corrected_amplitudes; the
\* weighted sum over the pairs follows
RoughnessDP ==
    /\ ppc = "loud" /\ psyImpl = "DP"
    /\ rough_arg' = corrected_amplitudes
    /\ roughness' = CalculateRoughness(valid_pitches, corrected_amplitudes)
    /\ stages' = Append(stages, "roughness")
    /\ ppc' = "done"
    /\ UNCHANGED <<psyImpl, valid_pitches, amps_masked, corrected_amplitudes>>
    /\ UNCHANGED <<noteVars, storeVars, densVars, metVars, calVars, fnVars, formVars>>

-----------------------------------------------------------------------------
(* The input form of gui_components.DensityCalculatorGUI.  A row holds the *)
(* value of its checkbox (state), whether its comboboxes accept typing     *)
(* (enabled), and the texts of its six comboboxes; note, octave, cents and *)
(* num are sequences of characters.  The metrics tree and the graphs frame *)
(* that clear_inputs also empties are not represented.                     *)

MaxRows == 2

MaxEdits == 4

\* the row built by one pass of the loop of _create_note_inputs
DefaultRow ==
    [state |-> 0, enabled |-> FALSE, note |-> <<>>, octave |-> <<"4">>, cents |-> <<"0">>,
     dynamic |-> "mf", instrument |-> "Flauta", num |-> <<"1">>]

\* What can be chosen from, or typed into, the comboboxes
NoteTexts == {<<>>, <<"D">>, <<"D", "down">>}

OctaveTexts == {<<>>, <<"4">>, <<"5">>}

CentsTexts == {<<>>, <<"0">>, <<"+", "2", "5">>}

DynamicTexts == {"mf", "pp"}

InstrumentTexts == {"Flauta", "Oboe"}

NumTexts == {<<>>, <<"1">>, <<"3">>, <<"x">>}

NoData ==
    [called |-> FALSE, raised |-> FALSE, exc |-> "none", keys |-> {}, notes |-> <<>>,
     dynamics |-> <<>>, instruments |-> <<>>, num_instruments |-> <<>>]

\* int(text) of a text without sign or blanks
ParseInt(text) ==
    IF Len(text) > 0 /\ \A k \in 1..Len(text) : text[k] \in Digits
    THEN [raised |-> FALSE, val |-> DigitsToNat(text)]
    ELSE [raised |-> TRUE, val |-> 0]

\* active_indices = [i for i in range(len(self.state_vars)) if self.state_vars[i].get() == 1]
ActiveIndices(f) ==
    SelectSeq([i \in 1..Len(f) |-> i], LAMBDA i : f[i].state = 1)

\* the body of the loop over active_indices: the note appended for one row
CompleteNote(row) ==
    IF row.note # <<>> /\ row.octave # <<>>
    THEN IF row.cents # <<>> /\ row.cents # <<"0">>
         THEN row.note \o row.octave \o row.cents \o <<"c">>
         ELSE row.note \o row.octave
    ELSE IF row.note # <<>> /\ row.octave = <<>> THEN row.note \o <<"4">>
    ELSE IF row.octave = <<>> /\ row.note # <<>> THEN <<"C">> \o row.octave
    ELSE <<"C", "4">>

\* the keys of the dict returned
InputDataKeys ==
    {"notes", "dynamics", "instruments", "num_instruments", "weight_factor", "save_results",
     "show_graphs", "use_stevens", "alpha", "beta", "use_psychoacoustic",
     "use_perceptual_weighting"}

\* get_input_data(): the dict, or the ValueError of int() leaving the method
GetInputDataOf(f) ==
    LET act == ActiveIndices(f)
        nums == [k \in 1..Len(act) |-> ParseInt(f[act[k]].num)]
    IN IF \E k \in 1..Len(act) : nums[k].raised
       THEN [called |-> TRUE, raised |-> TRUE, exc |-> "ValueError", keys |-> {},
             notes |-> <<>>, dynamics |-> <<>>, instruments |-> <<>>,
             num_instruments |-> <<>>]
       ELSE [called |-> TRUE, raised |-> FALSE, exc |-> "none", keys |-> InputDataKeys,
             notes |-> [k \in 1..Len(act) |-> CompleteNote(f[act[k]])],
             dynamics |-> [k \in 1..Len(act) |-> f[act[k]].dynamic],
             instruments |-> [k \in 1..Len(act) |-> f[act[k]].instrument],
             num_instruments |-> [k \in 1..Len(act) |-> nums[k].val]]

\* The user may change the form while no call is pending
MayEdit == gres = NoData /\ edits < MaxEdits

\* a click on the checkbox of row i, then toggle_state(i)
ClickCheckbutton ==
    /\ MayEdit
    /\ \E i \in 1..Len(form) :
          LET s == 1 - form[i].state
          IN form' = [form EXCEPT ![i].state = s, ![i].enabled = (s = 1)]
    /\ edits' = edits + 1
    /\ UNCHANGED gres
    /\ UNCHANGED <<noteVars, storeVars, densVars, metVars, calVars, fnVars, psyVars>>

EditNote ==
    /\ MayEdit
    /\ \E i \in 1..Len(form), t \in NoteTexts :
          /\ form[i].enabled
          /\ form' = [form EXCEPT ![i].note = t]
    /\ edits' = edits + 1
    /\ UNCHANGED gres
    /\ UNCHANGED <<noteVars, storeVars, densVars, metVars, calVars, fnVars, psyVars>>

EditOctave ==
    /\ MayEdit
    /\ \E i \in 1..Len(form), t \in OctaveTexts :
          /\ form[i].enabled
          /\ form' = [form EXCEPT ![i].octave = t]
    /\ edits' = edits + 1
    /\ UNCHANGED gres
    /\ UNCHANGED <<noteVars, storeVars, densVars, metVars, calVars, fnVars, psyVars>>

EditCents ==
    /\ MayEdit
    /\ \E i \in 1..Len(form), t \in CentsTexts :
          /\ form[i].enabled
          /\ form' = [form EXCEPT ![i].cents = t]
    /\ edits' = edits + 1
    /\ UNCHANGED gres
    /\ UNCHANGED <<noteVars, storeVars, densVars, metVars, calVars, fnVars, psyVars>>

EditDynamic ==
    /\ MayEdit
    /\ \E i \in 1..Len(form), t \in DynamicTexts :
          /\ form[i].enabled
          /\ form' = [form EXCEPT ![i].dynamic = t]
    /\ edits' = edits + 1
    /\ UNCHANGED gres
    /\ UNCHANGED <<noteVars, storeVars, densVars, metVars, calVars, fnVars, psyVars>>

EditInstrument ==
    /\ MayEdit
    /\ \E i \in 1..Len(form), t \in InstrumentTexts :
          /\ form[i].enabled
          /\ form' = [form EXCEPT ![i].instrument = t]
    /\ edits' = edits + 1
    /\ UNCHANGED gres
    /\ UNCHANGED <<noteVars, storeVars, densVars, metVars, calVars, fnVars, psyVars>>

EditNumInstruments ==
    /\ MayEdit
    /\ \E i \in 1..Len(form), t \in NumTexts :
          /\ form[i].enabled
          /\ form' = [form EXCEPT ![i].num = t]
    /\ edits' = edits + 1
    /\ UNCHANGED gres
    /\ UNCHANGED <<noteVars, storeVars, densVars, metVars, calVars, fnVars, psyVars>>

\* clear_inputs(): every variable back to its default; the comboboxes keep
\* the state toggle_state gave them
ClearInputs ==
    /\ MayEdit
    /\ form' = [i \in 1..Len(form) |-> [DefaultRow EXCEPT !.enabled = form[i].enabled]]
    /\ edits' = edits + 1
    /\ UNCHANGED gres
    /\ UNCHANGED <<noteVars, storeVars, densVars, metVars, calVars, fnVars, psyVars>>

\* get_input_data()
GetInputData ==
    /\ gres = NoData
    /\ gres' = GetInputDataOf(form)
    /\ UNCHANGED <<form, edits>>
    /\ UNCHANGED <<noteVars, storeVars, densVars, metVars, calVars, fnVars, psyVars>>

\* the caller is done with what get_input_data gave it
ReturnToForm ==
    /\ gres # NoData
    /\ gres' = NoData
    /\ UNCHANGED <<form, edits>>
    /\ UNCHANGED <<noteVars, storeVars, densVars, metVars, calVars, fnVars, psyVars>>

-----------------------------------------------------------------------------
(* A session on the calibration store: loads, automatic calibration,       *)
(* manual sets, density computations and calcular_metricas, one operation  *)
(* after the other (the program is single-threaded).                       *)

MaxSaves == 2
MaxReads == 2

\* bounds = [(0.01, 1.0)] of calibrar_lambda
LAMBDA_BOUNDS == [lo |-> 1, hi |-> 100]

Clip(x, b) == IF x < b.lo THEN b.lo ELSE IF x > b.hi THEN b.hi ELSE x

\* minimize(objetivo, [DEFAULT_LAMBDA], bounds=bounds, method='L-BFGS-B').x[0]:
\* the optimiser is external; whatever minimum it finds lies inside the box
Minimize(b) == {Clip(x, b) : x \in {-20, 1, 37, 100, 150}}

\* What the manual entry field or slider can hold (hundredths)
ManualValues == {0, 1, 37, 150}

NoLoad == [called |-> FALSE, impl |-> "none", raised |-> FALSE, val |-> 0]
NoCal == [called |-> FALSE, impl |-> "none", raised |-> FALSE, val |-> 0, saved |-> FALSE]

StoreContents == Stores \cup {NonObject, Unreadable}

StoreChords == { <<>>, <<Str(<<"C", "4">>), Str(<<"C", "+", "4">>)>> }

StoreInputDatas ==
    { [notes |-> List(<<Str(<<"C", "4">>), Str(<<"D", "b", "4">>)>>),
       dynamics |-> List(<<"pp", "ff">>), instruments |-> List(<<i, "flauta">>),
       num_instruments |-> List(<<2, 1>>), use_psychoacoustic |-> TRUE,
       use_perceptual_weighting |-> FALSE] : i \in {"flauta", "oboe"} }

\* carregar_parametros_calibrados() of densidade_intervalar.py
CallCarregarDI ==
    /\ dpc = "ready"
    /\ LET r == TentarCarregar(store, DEFAULT_LAMBDA)
       IN loadOut' = [called |-> TRUE, impl |-> "DI", raised |-> r.raised, val |-> r.val]
    /\ storeReads' = storeReads + 1
    /\ dpc' = "done"
    /\ UNCHANGED <<store, chord, lambArg, dres, mlamb, saves, calOut>>
    /\ UNCHANGED <<noteVars, metVars, fnVars, formVars, psyVars>>

\* carregar_parametros_calibrados() of calibration.py
CallCarregarCAL ==
    /\ dpc = "ready"
    /\ LET r == TentarCarregar(store, DEFAULT_LAMBDA_CAL)
       IN loadOut' = [called |-> TRUE, impl |-> "CAL", raised |-> r.raised, val |-> r.val]
    /\ storeReads' = storeReads + 1
    /\ dpc' = "done"
    /\ UNCHANGED <<store, chord, lambArg, dres, mlamb, saves, calOut>>
    /\ UNCHANGED <<noteVars, metVars, fnVars, formVars, psyVars>>

\* calibrar_lambda() of densidade_intervalar.py with the literature ratings:
\* optimise, save (the value salvar_parametros_calibrados returns is dropped),
\* return the optimum
CallCalibrarLambdaDI ==
    /\ dpc = "ready"
    /\ Len(saves) < MaxSaves
    /\ \E x \in Minimize(LAMBDA_BOUNDS), ok \in BOOLEAN :
          LET w == SalvarParametrosCalibrados(store, x, ok)
          IN /\ store' = w.store
             /\ saves' = IF w.returned THEN Append(saves, x) ELSE saves
             /\ calOut' = [called |-> TRUE, impl |-> "DI", raised |-> FALSE, val |-> x,
                           saved |-> w.returned]
    /\ dpc' = "done"
    /\ UNCHANGED <<storeReads, chord, lambArg, dres, mlamb, loadOut>>
    /\ UNCHANGED <<noteVars, metVars, fnVars, formVars, psyVars>>

\* calibrar_lambda() of calibration.py: the same steps on the same file
CallCalibrarLambdaCAL ==
    /\ dpc = "ready"
    /\ Len(saves) < MaxSaves
    /\ \E x \in Minimize(LAMBDA_BOUNDS), ok \in BOOLEAN :
          LET w == SalvarParametrosCalibrados(store, x, ok)
          IN /\ store' = w.store
             /\ saves' = IF w.returned THEN Append(saves, x) ELSE saves
             /\ calOut' = [called |-> TRUE, impl |-> "CAL", raised |-> FALSE, val |-> x,
                           saved |-> w.returned]
    /\ dpc' = "done"
    /\ UNCHANGED <<storeReads, chord, lambArg, dres, mlamb, loadOut>>
    /\ UNCHANGED <<noteVars, metVars, fnVars, formVars, psyVars>>

\* no test of the value
QualquerValor(valor) == TRUE

\* if 0.01 <= valor <= 1.0 (and minvalue=0.01, maxvalue=1.0 of askfloat)
DentroDoIntervalo(valor) == 1 <= valor /\ valor <= 100

\* The manual set of the calibration dialogs: a value inside [0.01, 1.0] is
\* saved, any other is refused with an error box
DefinirLambdaManual ==
    /\ dpc = "ready"
    /\ Len(saves) < MaxSaves
    /\ \E valor \in ManualValues, ok \in BOOLEAN :
          IF DentroDoIntervalo(valor)
          THEN LET w == SalvarParametrosCalibrados(store, valor, ok)
               IN /\ store' = w.store
                  /\ saves' = IF w.returned THEN Append(saves, valor) ELSE saves
          ELSE UNCHANGED <<store, saves>>
    /\ dpc' = "done"
    /\ UNCHANGED <<storeReads, chord, lambArg, dres, mlamb, loadOut, calOut>>
    /\ UNCHANGED <<noteVars, metVars, fnVars, formVars, psyVars>>

\* calcular_metricas(input_data) is entered
IniciarMetricas ==
    /\ dpc = "ready" /\ mpc = "off"
    /\ UNCHANGED densidades_instr
    /\ input_data' \in StoreInputDatas
    /\ mpc' = "ready"
    /\ dpc' = "busy"
    /\ UNCHANGED <<mnotas, canonCalls, conversions, moduleLoads, mres>>
    /\ UNCHANGED <<chord, lambArg, dres>>
    /\ UNCHANGED <<noteVars, storeVars, calVars, fnVars, formVars, psyVars>>

\* The operation has returned to the event loop; the next one is chosen.  The
\* store keeps what was written to it.
NovaChamada ==
    /\ dpc = "done" \/ (dpc = "busy" /\ mpc \in {"returned", "raised"})
    /\ storeReads < MaxReads
    /\ dpc' = "ready"
    /\ chord' \in StoreChords /\ lambArg' \in LambArgs /\ dres' = NoCall
    /\ loadOut' = NoLoad /\ calOut' = NoCal /\ mlamb' = NoLamb
    /\ input_data' = [notes |-> Missing, dynamics |-> Missing, instruments |-> Missing,
                      num_instruments |-> Missing, use_psychoacoustic |-> TRUE,
                      use_perceptual_weighting |-> FALSE]
    /\ mpc' = "off" /\ mnotas' = <<>> /\ canonCalls' = 0 /\ conversions' = 0
    /\ moduleLoads' = 0 /\ mres' = NoResult /\ densidades_instr' = <<>>
    /\ UNCHANGED <<storeVars, saves>>
    /\ UNCHANGED <<noteVars, fnVars, formVars, psyVars>>

-----------------------------------------------------------------------------
(* Specifications                                                          *)

vars == <<noteVars, storeVars, densVars, metVars, calVars, fnVars, formVars, psyVars>>

NotesIdle ==
    /\ pc = "off" /\ routine = "none" /\ midi = Returned(0) /\ flags = NoFlags
    /\ name = <<>> /\ midi2 = Returned(0) /\ sharp = Str(<<>>) /\ sharp2 = Str(<<>>)
    /\ valid = FALSE

DensIdle == chord = <<>> /\ lambArg = NoLamb /\ dpc = "off" /\ dres = NoCall

CalIdle == mlamb = NoLamb /\ saves = <<>> /\ loadOut = NoLoad /\ calOut = NoCal

FnIdle == fpc = "off" /\ fname = "none" /\ farg = <<>> /\ fout = <<>>

FormIdle == form = <<>> /\ edits = 0 /\ gres = NoData

PsyIdle ==
    /\ ppc = "off" /\ psyImpl = "none" /\ valid_pitches = <<>> /\ amps_masked = <<>>
    /\ corrected_amplitudes = <<>> /\ rough_arg = <<>> /\ roughness = {}
    /\ stages = <<>>

MetIdle ==
    /\ input_data = [notes |-> Missing, dynamics |-> Missing, instruments |-> Missing,
                     num_instruments |-> Missing, use_psychoacoustic |-> TRUE,
                     use_perceptual_weighting |-> FALSE]
    /\ mpc = "off" /\ mnotas = <<>> /\ canonCalls = 0 /\ conversions = 0
    /\ moduleLoads = 0 /\ mres = NoResult /\ densidades_instr = <<>>

\* The note routines, each called on one input value
InitNotes ==
    /\ note \in InputValues
    /\ pc = "ready" /\ routine = "none" /\ midi = Returned(0) /\ flags = NoFlags
    /\ name = <<>> /\ midi2 = Returned(0) /\ sharp = Str(<<>>) /\ sharp2 = Str(<<>>)
    /\ valid = FALSE
    /\ store = Absent /\ storeReads = 0
    /\ DensIdle /\ MetIdle /\ CalIdle /\ FnIdle /\ FormIdle /\ PsyIdle

NextNotes ==
    \/ CallNoteToMidiM
    \/ CallNoteToMidiN
    \/ CallNoteToMidiS
    \/ CallMidiToNoteNameM
    \/ CallMidiToNoteNameN
    \/ Reparse
    \/ CallToSharp
    \/ Renormalize
    \/ CallIsValidNote

SpecNotes == InitNotes /\ [][NextNotes]_vars

\* The decay and density routines, each called on one chord and one store
InitDensity ==
    /\ store \in Stores /\ storeReads = 0
    /\ chord \in Chords /\ lambArg \in LambArgs /\ dpc = "ready" /\ dres = NoCall
    /\ note = NonString /\ NotesIdle /\ MetIdle /\ CalIdle /\ FnIdle /\ FormIdle /\ PsyIdle

NextDensity ==
    \/ CallDecaimentoDI
    \/ CallDecaimentoCAL
    \/ CallDensidadeDI
    \/ CallDensidadeCAL

SpecDensity == InitDensity /\ [][NextDensity]_vars

\* calcular_densidade_intervalar on chords whose pair midpoints lie on and
\* around the register limits 48, 72 and 84
WeightNotes ==
    { Str(<<"C", "2">>), Str(<<"C", "3">>), Str(<<"B", "4">>), Str(<<"C", "5">>),
      Str(<<"C", "#", "5">>), Str(<<"C", "6">>), Str(<<"C", "#", "6">>) }

WeightChords == UNION {[1..n -> WeightNotes] : n \in 0..3}

InitWeighting ==
    /\ store \in {Absent, Object(TRUE, 5)} /\ storeReads = 0
    /\ chord \in WeightChords /\ lambArg \in {NoLamb, Lamb(5)}
    /\ dpc = "ready" /\ dres = NoCall
    /\ note = NonString /\ NotesIdle /\ MetIdle /\ CalIdle /\ FnIdle /\ FormIdle /\ PsyIdle

NextWeighting == CallDensidadeDI

SpecWeighting == InitWeighting /\ [][NextWeighting]_vars

\* One call of calcular_metricas
InitMetricas ==
    /\ store \in Stores /\ storeReads = 0
    /\ input_data \in InputDatas /\ mpc = "ready" /\ mnotas = <<>>
    /\ canonCalls = 0 /\ conversions = 0 /\ moduleLoads = 0 /\ mres = NoResult
    /\ densidades_instr = <<>>
    /\ note = NonString /\ NotesIdle /\ DensIdle /\ CalIdle /\ FnIdle /\ FormIdle /\ PsyIdle

NextMetricas ==
    \/ ValidarEntrada
    \/ ConverterNotas
    \/ DensidadeIntervalar
    \/ DensidadeInstrumento
    \/ ConcluirMetricas
    \/ PropagarExcecao

SpecMetricas == InitMetricas /\ [][NextMetricas]_vars

\* The stand-alone functions, each called on one argument
FunctionArgs ==
    [ calcular_densidade |->
        [impl : {"flauta", "clarinete"}, nota : DensityNotes, dinamica : DensityDynamics],
      critical_band_masking |-> MaskingArgs,
      get_register_weight |-> RegisterArgs,
      calculate_chroma_vector |-> ChromaArgs,
      analisar_densidade_completa |-> AnalisarArgs,
      converter_para_sustenido |-> {Str(n) : n \in InputStrings},
      objetivo |-> DOMAIN CONSONANCE_RATINGS,
      is_valid_note |-> {Str(n) : n \in InputStrings},
      nota_para_posicao |-> PosicaoArgs,
      calculate_harmonic_ratio |-> HarmonicArgs ]

InitFunctions ==
    /\ fpc = "ready"
    /\ fname \in DOMAIN FunctionArgs
    /\ farg \in FunctionArgs[fname]
    /\ fout = <<>>
    /\ store = Absent /\ storeReads = 0
    /\ note = NonString /\ NotesIdle /\ DensIdle /\ MetIdle /\ CalIdle /\ FormIdle /\ PsyIdle

NextFunctions ==
    \/ CallCalcularDensidade
    \/ CallCriticalBandMasking
    \/ CallGetRegisterWeight
    \/ CallCalculateChromaVector
    \/ CallAnalisarDensidadeCompleta
    \/ CallConverterParaSustenido
    \/ CallObjetivo
    \/ CallIsValidNoteParsed
    \/ CallNotaParaPosicao
    \/ CallCalculateHarmonicRatio

SpecFunctions == InitFunctions /\ [][NextFunctions]_vars

\* The input form from its construction on
InitForm ==
    /\ form = [i \in 1..MaxRows |-> DefaultRow] /\ edits = 0 /\ gres = NoData
    /\ store = Absent /\ storeReads = 0
    /\ note = NonString /\ NotesIdle /\ DensIdle /\ MetIdle /\ CalIdle /\ FnIdle
    /\ PsyIdle

NextForm ==
    \/ ClickCheckbutton
    \/ EditNote
    \/ EditOctave
    \/ EditCents
    \/ EditDynamic
    \/ EditInstrument
    \/ EditNumInstruments
    \/ ClearInputs
    \/ GetInputData
    \/ ReturnToForm

SpecForm == InitForm /\ [][NextForm]_vars

\* A session of operations on one calibration store
InitStore ==
    /\ store \in StoreContents /\ storeReads = 0
    /\ chord \in StoreChords /\ lambArg \in LambArgs /\ dpc = "ready" /\ dres = NoCall
    /\ note = NonString /\ NotesIdle /\ MetIdle /\ CalIdle /\ FnIdle /\ FormIdle /\ PsyIdle

NextStore ==
    \/ CallCarregarDI
    \/ CallCarregarCAL
    \/ CallCalibrarLambdaDI
    \/ CallCalibrarLambdaCAL
    \/ DefinirLambdaManual
    \/ CallDensidadeDI
    \/ CallDensidadeCAL
    \/ IniciarMetricas
    \/ ValidarEntrada
    \/ ConverterNotas
    \/ DensidadeIntervalar
    \/ DensidadeInstrumento
    \/ ConcluirMetricas
    \/ PropagarExcecao
    \/ NovaChamada

SpecStore == InitStore /\ [][NextStore]_vars

\* One psychoacoustically corrected call of either
\* calcular_densidade_intervalar_psicoaustica
InitPsycho ==
    /\ ppc = "start" /\ psyImpl \in {"DI", "DP"} /\ valid_pitches \in PsyPitches
    /\ amps_masked = <<>> /\ corrected_amplitudes = <<>> /\ rough_arg = <<>>
    /\ roughness = {} /\ stages = <<>>
    /\ store = Absent /\ storeReads = 0
    /\ note = NonString /\ NotesIdle /\ DensIdle /\ MetIdle /\ CalIdle /\ FnIdle /\ FormIdle

NextPsycho ==
    \/ MascaramentoDI
    \/ RoughnessDI
    \/ LoudnessDI
    \/ RetornarZeroDP
    \/ MascaramentoDP
    \/ LoudnessDP
    \/ RoughnessDP

SpecPsycho == InitPsycho /\ [][NextPsycho]_vars

\* The same session, begun with no store or a store holding a lambda of
\* [0.01, 1.0]
InRangeStores == {Absent, Object(TRUE, 1), Object(TRUE, 37), Object(TRUE, 100)}

InitCalibrated ==
    /\ store \in InRangeStores /\ storeReads = 0
    /\ chord \in StoreChords /\ lambArg \in LambArgs /\ dpc = "ready" /\ dres = NoCall
    /\ note = NonString /\ NotesIdle /\ MetIdle /\ CalIdle /\ FnIdle /\ FormIdle /\ PsyIdle

SpecCalibrated == InitCalibrated /\ [][NextStore]_vars

-----------------------------------------------------------------------------
(* Properties                                                              *)

\* C1: calcular_metricas raises InputError whenever one of notes, dynamics,
\* instruments, num_instruments is missing or empty or the four lengths are
\* not all equal; no computation step has run (no note canonicalised or
\* converted, no instrument module loaded, the calibration store not read),
\* and what reaches the caller is the InputError.
C1_InputErrorBeforeAnyComputation ==
    LET items(key) == IF input_data[key].kind = "list" THEN input_data[key].items ELSE <<>>
        invalid == \/ \E key \in RequiredLists : items(key) = <<>>
                   \/ \E k1 \in RequiredLists, k2 \in RequiredLists :
                          Len(items(k1)) # Len(items(k2))
    IN (mpc # "off" /\ invalid) =>
          /\ mpc \in {"ready", "except", "raised"}
          /\ canonCalls = 0 /\ conversions = 0 /\ moduleLoads = 0 /\ storeReads = 0
          /\ mpc = "except" => mres.exc = "InputError"
          /\ mpc = "raised" => mres.raised /\ mres.exc = "InputError" /\ ~mres.returned

\* C1 witness: four non-empty lists of unequal lengths, and the InputError has
\* reached the caller
C1_Witness ==
    /\ mpc = "raised" /\ mres.raised /\ mres.exc = "InputError"
    /\ \A key \in RequiredLists : input_data[key].kind = "list" /\ input_data[key].items # <<>>
    /\ Len(input_data.notes.items) # Len(input_data.num_instruments.items)

\* C2: for every flat spelling of the table (Db, Eb, Fb, Gb, Ab, Bb) and every
\* octave digit, note_to_midi(flat + octave) equals
\* note_to_midi(sharp equivalent + octave).
C2_FlatEqualsSharp ==
    \A f \in {<<"D", "b">>, <<"E", "b">>, <<"F", "b">>, <<"G", "b">>, <<"A", "b">>, <<"B", "b">>},
       o \in InputOctaves :
        (pc = "midi" /\ routine \in {"M", "N"} /\ note = Str(f \o o)) =>
            midi = IF routine = "M"
                   THEN Returned(NoteToMidiM(Str(EQUIVALENCIAS_NOTAS[f] \o o)))
                   ELSE NoteToMidiN(Str(EQUIVALENCIAS_NOTAS[f] \o o))

\* C3: for every valid base note b (plain, quarter-tone code or arrow form) and
\* every signed cents suffix s of one or two digits, +0 and -0 included,
\* note_to_midi(b + s + "c") equals note_to_midi(b) + s/100.
C3_CentsShiftThePitch ==
    \A c \in InputCents \ {<<>>} :
        LET s == note.chars
            b == SubSeq(s, 1, Len(s) - Len(c))
            bn == Replace(b, "#", "sharp")
        IN (/\ pc = "midi" /\ routine = "M" /\ note.isStr
            /\ Len(s) > Len(c) /\ SubSeq(s, Len(s) - Len(c) + 1, Len(s)) = c
            /\ \/ Matches(bn, PatStandard(AccAny))
               \/ Matches(bn, PatQuarter(AccAny))
               \/ Matches(bn, PatArrow(AccAny, Arrows)))
           => midi.val = NoteToMidiM(Str(b))
                           + SignedToInt(<<c[1]>>, SubSeq(c, 2, Len(c) - 1))

\* C4: for every note string is_valid_note accepts, note_to_midi returns a
\* value within [0, 127].
C4_ValidNoteWithinMidiRange ==
    (pc = "midi" /\ routine = "M" /\ IsValidNoteM(note)) =>
        (midi.val >= 0 /\ midi.val <= 12700)

\* C5: for every valid note x, parsing the name made from its MIDI value gives
\* the same MIDI value: note_to_midi(midi_to_note_name(note_to_midi(x))) equals
\* note_to_midi(x), quarter-tone and cents-inflected notes included.
C5_NameRoundTrip ==
    (pc = "reparsed" /\ flags = NoFlags /\ IsValidNoteM(note)) => midi2 = midi

\* C6: note_to_midi never raises, whatever the input, and returns exactly 60.0
\* for a string that matches none of the recognised note patterns.
C6_NeverRaises ==
    (pc = "midi" /\ routine \in {"M", "N"}) =>
        /\ ~midi.raised
        /\ (note.isStr /\ ~IsValidNoteM(note) /\ ~IsValidNoteN(note.chars))
               => midi.val = FALLBACK_MIDI

\* C7: in every note-parsing routine, for every pitch name X and octave o, the
\* up arrow form of X names the pitch of X-o, a quarter tone below Xo, and the
\* down arrow form names the pitch of X+o, a quarter tone above Xo.
C7_ArrowConventionUniform ==
    LET parse(chars) ==
            IF routine = "M" THEN Returned(NoteToMidiM(Str(chars)))
            ELSE IF routine = "N" THEN NoteToMidiN(Str(chars))
            ELSE Returned(NoteToMidiS(Str(chars)))
    IN \A X \in DOMAIN ESCALA_CROMATICA, o \in InputOctaves :
          /\ (pc = "midi" /\ note = Str(X \o <<"up">> \o o)) =>
                /\ midi = parse(X \o <<"-">> \o o)
                /\ midi = Returned(parse(X \o o).val - 50)
          /\ (pc = "midi" /\ note = Str(X \o <<"down">> \o o)) =>
                /\ midi = parse(X \o <<"+">> \o o)
                /\ midi = Returned(parse(X \o o).val + 50)

\* C8: for every valid note n, to_sharp(to_sharp(n)) equals to_sharp(n), and
\* to_sharp(n) holds no flat spelling.
C8_ToSharpIdempotent ==
    (pc = "sharp2" /\ IsValidNoteM(note)) =>
        /\ sharp2 = sharp
        /\ ~(Len(sharp.chars) >= 2 /\ sharp.chars[2] = "b")

\* C9: decay(0, lambda) is exactly 1.0 for every lambda in (0, 1], passed or
\* read from the calibration store, in each implementation of the decay.
C9_UnisonDecayIsOne ==
    (dpc = "done" /\ dres.call = "decay" /\ dres.delta = 0
        /\ dres.lambUsed >= 1 /\ dres.lambUsed <= 100)
        => dres.value = Const(100)

\* C10: with perceptual weighting off, the density sum holds exactly one decay
\* term for each unordered pair of the input notes: k notes give k(k-1)/2
\* terms, and a list of two identical notes gives the single term
\* decay(0, lambda).  The notes are the non-empty entries of the list.
C10_OneTermPerUnorderedPair ==
    (dpc = "done" /\ dres.call = "density" /\ ~dres.usar /\ ~dres.raised) =>
        LET k == Len(SelectSeq(chord, Truthy))
            decay0 == IF dres.impl = "DI"
                      THEN DecaimentoExponencialModificado(0, Lamb(dres.lambUsed), store)
                      ELSE DecaimentoExponencialModificadoCAL(0, Lamb(dres.lambUsed), store)
        IN /\ 2 * Len(dres.terms) = k * (k - 1)
           /\ \A a \in 1..k, b \in 1..k :
                 a < b => Cardinality({t \in 1..Len(dres.terms) :
                              {dres.terms[t].i, dres.terms[t].j} = {a, b}}) = 1
           /\ \A t \in 1..Len(dres.terms) : ~dres.terms[t].weighted
           /\ (Len(chord) = 2 /\ Truthy(chord[1]) /\ chord[1] = chord[2]) =>
                 (Len(dres.terms) = 1 /\ dres.terms[1].value = decay0)

\* C10 witness: four notes, two of them the same, summed without weighting
C10_Witness ==
    /\ dpc = "done" /\ dres.call = "density" /\ ~dres.usar /\ ~dres.raised
    /\ Len(chord) = 4 /\ Len(dres.terms) = 6
    /\ \E t \in 1..Len(dres.terms) : dres.terms[t].delta = 0

C12_CalibrationPersistsItsResult ==
    calOut.called =>
        /\ ~calOut.raised
        /\ 1 <= calOut.val /\ calOut.val <= 100
        /\ store = [kind |-> "object", hasLambda |-> TRUE, lambda |-> calOut.val]
        /\ TentarCarregar(store, DEFAULT_LAMBDA) = [raised |-> FALSE, val |-> calOut.val]

\* C13: a load of the calibration store never raises and leaves the store as
\* it was; it returns 0.05 when the file is missing, cannot be parsed or holds
\* no "lambda" entry, and the stored lambda otherwise.
C13_LoadNeverRaisesNorWrites ==
    [][ (dpc = "ready" /\ loadOut'.called) =>
            /\ store' = store
            /\ ~loadOut'.raised
            /\ loadOut'.val = IF store.kind = "object" /\ store.hasLambda
                              THEN store.lambda ELSE 5
      ]_vars

\* A load of a file that is valid JSON but not an object (params.get fails
\* inside the try) has returned the default
C13_Witness ==
    loadOut.called /\ store.kind = "nonobject" /\ ~loadOut.raised /\ loadOut.val = 5

\* C14: when the four lists pass the validation of step 1, calcular_metricas
\* returns a result: no unknown note, instrument name or dynamic marking makes
\* it raise.
C14_UnknownLookupsNeverFatal ==
    (mpc = "raised") => mres.exc = "InputError"

\* C15: calcular_densidade(note, dynamic) of an instrument never raises and
\* returns a number found in this order, a later step being used only when
\* every earlier one fails: the entry of the note at the dynamic; for a
\* dynamic outside pp, mf, ff the entry of the note at the nearest of them
\* (pppp, ppp, p -> pp; f, fff, ffff -> ff); the entry of the same pitch
\* class (same name, accidental and quarter-tone sign) whose octave is
\* nearest; the global mean; the constant 5.0.
C15_DensityFallbackChain ==
    (fpc = "done" /\ fname = "calcular_densidade" /\ farg.nota.isStr) =>
        LET keys == IF farg.impl = "flauta" THEN FlautaKeys ELSE ClarineteKeys
            nota == IF farg.impl = "flauta" THEN farg.nota.chars
                    ELSE NormalizeNoteStringN(ExtractCentsN(farg.nota.chars).base)
            m == Match(nota, <<One(Letters), Opt(AccAscii), Opt(Signs), Slot(Digits, 1, 2)>>)
            same == {k \in keys : Len(k) >= 2 /\ SubSeq(k, 1, Len(k) - 1) = Caps(m, 1, 3)}
        IN IF nota \in keys
           THEN fout = Entry(nota, DinamicaProxima(farg.dinamica))
           ELSE IF m.ok /\ same # {}
           THEN /\ fout.kind = "entry" /\ fout.key \in same
                /\ fout.dyn = DinamicaProxima(farg.dinamica)
                /\ \A k \in same :
                      Abs(DigitsToNat(m.caps[4]) - DigitVal(fout.key[Len(fout.key)]))
                        <= Abs(DigitsToNat(m.caps[4]) - DigitVal(k[Len(k)]))
           ELSE fout.kind = "mean"

\* C16: critical_band_masking returns as many amplitudes as it was given;
\* amplitude i is changed only if some other partial j lies less than 1 Bark
\* away and is strictly louder, and is returned as it was (gain exactly 1)
\* otherwise, so two partials 1 Bark or more apart both keep their
\* amplitudes; no amplitude is increased.
C16_MaskingOnlyByLouderNeighbour ==
    (fpc = "done" /\ fname = "critical_band_masking") =>
        LET p == farg.pitches
            a == farg.amplitudes
            masker(i) == \E j \in 1..Len(p) :
                            /\ j # i /\ a[j] > a[i]
                            /\ Abs(BarkOf[p[i]] - BarkOf[p[j]]) < 100
        IN /\ Len(fout) = Len(a)
           /\ \A i \in 1..Len(a) :
                 /\ fout[i].num <= a[i] * fout[i].den
                 /\ ~masker(i) => fout[i] = [num |-> a[i], den |-> 1]

\* Three partials: the quiet middle one is within 1 Bark of a louder one and
\* is attenuated; the outer two, more than 1 Bark apart and not masked, are
\* returned as given
C16_Witness ==
    /\ fpc = "done" /\ fname = "critical_band_masking"
    /\ farg.pitches = <<60, 62, 67>> /\ farg.amplitudes = <<2, 1, 2>>
    /\ fout[2].num < fout[2].den
    /\ fout[1] = [num |-> 2, den |-> 1] /\ fout[3] = [num |-> 2, den |-> 1]

\* C17: with perceptual weighting on, each pair's decay term is multiplied by
\* (register factor) x (interval factor): the register factor of the pair's
\* MIDI midpoint is 1.3 above 84, 1.1 from 72 to 84, 0.8 below 48 and 1.0
\* otherwise; the interval factor is 1.5 for an interval of at most 1
\* semitone, 1.3 for at most 2, 1.1 for at most 4, 0.9 for 12 or more and 1.0
\* otherwise.  (Pitches and intervals in cents, factors in tenths.)
C17_PerceptualWeightIsRegisterTimesInterval ==
    (dpc = "done" /\ dres.call = "density" /\ dres.impl = "DI" /\ dres.usar)
    => \A t \in 1..Len(dres.terms) :
          LET soma == dres.terms[t].midi1 + dres.terms[t].midi2
              semitons == dres.terms[t].delta \div 2
              registro == IF soma > 2 * 8400 THEN 13
                          ELSE IF soma >= 2 * 7200 THEN 11
                          ELSE IF soma < 2 * 4800 THEN 8
                          ELSE 10
              intervalo == IF semitons <= 100 THEN 15
                           ELSE IF semitons <= 200 THEN 13
                           ELSE IF semitons <= 400 THEN 11
                           ELSE IF semitons >= 1200 THEN 9
                           ELSE 10
          IN dres.terms[t].peso = registro * intervalo

C19_ChromaVectorNormalised ==
    (fpc = "done" /\ fname = "calculate_chroma_vector")
    => LET n == Len(fout.idx)
           E[k \in 0..n] == IF k = 0 THEN 0 ELSE E[k - 1] + fout.amps[k]
           energy == E[n]
       IN /\ DOMAIN fout.chroma = 0..11
          /\ \A b \in 0..11 : fout.chroma[b].num >= 0 /\ fout.chroma[b].den > 0
          /\ n = Min(Len(farg.pitches),
                     IF farg.amplitudes.given THEN Len(farg.amplitudes.vals)
                     ELSE Len(farg.pitches))
          /\ \A k \in 1..n :
                /\ fout.idx[k] \in 0..11
                /\ \E r \in -1..127 :
                      /\ r % 12 = fout.idx[k]
                      /\ Abs(100 * r - farg.pitches[k].val) <= 50
          /\ \A b \in 0..11 :
                fout.chroma[b].num = BinEnergy(fout.idx, fout.amps, b)
          /\ energy > 0 =>
                SumBins([b \in 0..11 |-> fout.chroma[b].num]) = fout.chroma[0].den
          /\ energy = 0 => \A b \in 0..11 : fout.chroma[b].num = 0

\* two notes of the same pitch class, one a quarter tone above C4, with
\* amplitudes 1 and 2: bin C holds 3/3 and the other bins 0
C19_Witness ==
    /\ fpc = "done" /\ fname = "calculate_chroma_vector"
    /\ farg.pitches = <<Float(6050), Float(7200)>>
    /\ farg.amplitudes = Amplitudes(<<Float(1), Float(2)>>)
    /\ fout.chroma[0] = [num |-> 3, den |-> 3]
    /\ \A b \in 1..11 : fout.chroma[b].num = 0

\* C20: in every state of the input form, get_input_data returns a dict
\* without a 'durations' key whose lists notes, dynamics, instruments and
\* num_instruments all have the same length, one entry per active row (a row
\* with a missing note or octave still contributes exactly one default note).
C20_InputDataListsMatchActiveRows ==
    gres.called
    => /\ ~gres.raised
       /\ "durations" \notin gres.keys
       /\ {"notes", "dynamics", "instruments", "num_instruments"} \subseteq gres.keys
       /\ LET active == Cardinality({i \in 1..Len(form) : form[i].state = 1})
          IN /\ Len(gres.notes) = active
             /\ Len(gres.dynamics) = active
             /\ Len(gres.instruments) = active
             /\ Len(gres.num_instruments) = active
             /\ \A k \in 1..Len(gres.notes) : Len(gres.notes[k]) >= 2

\* C21: analisar_densidade_completa completes without NameError or any other
\* exception for every non-empty list of MIDI values, with perceptual
\* weighting on or off and no explicit weights, and returns all its metrics:
\* densidade_basica, densidade_intervalar, densidade_ponderada,
\* distribuicao_espacial, massa, volume and the per-register densities grave,
\* medio, agudo and total, each of them a finite number.
C21_AnalisarCompletesWithAllMetrics ==
    (fpc = "done" /\ fname = "analisar_densidade_completa")
    => /\ ~fout.raised
       /\ DOMAIN fout.resultado =
             {"densidade_basica", "densidade_intervalar", "densidade_ponderada",
              "distribuicao_espacial", "massa", "volume", "densidade_grave",
              "densidade_medio", "densidade_agudo", "densidade_total"}
       /\ fout.resultado["massa"] = Q(Len(farg.notas), 1)
       /\ \A k \in DOMAIN fout.resultado : fout.resultado[k].den > 0

\* the test's chord with a note doubled: weighting on, a unison among the
\* notes (volume of the middle register 0 before the minimum is applied)
C21_Witness ==
    /\ fpc = "done" /\ fname = "analisar_densidade_completa"
    /\ farg.notas = <<6000, 6000, 3500>> /\ farg.usar
    /\ ~fout.raised
    /\ fout.resultado["volume"] = Q(25, 1)
    /\ fout.resultado["densidade_medio"] = Q(4, 1)
    /\ fout.resultado["densidade_agudo"] = Q(0, 1)

\* C22: canonicalization preserves pitch: for every valid note n (flat,
\* ASCII quarter-tone code, arrow form, with or without cents),
\* note_to_midi(to_sharp(n)) equals note_to_midi(n), and step 2 of
\* calcular_metricas (sharp form, cents re-attached) does not change the MIDI
\* value of the note.
C22_CanonicalizationPreservesPitch ==
    (fpc = "done" /\ fname = "converter_para_sustenido" /\ fout.valid)
    => /\ fout.midiSharp = fout.midi
       /\ fout.midiCanon = fout.midi

\* C23: for each index i, calcular_metricas looks up the density of note i
\* with dynamic i in the data of the instrument assigned to note i
\* (instruments[i]) and multiplies it by sqrt(num_instruments[i]);
\* densidade_instrumento is the sum of these per-note values.  Stated for the
\* calls in which every instrument named has a module.
C23_DensityFromTheNotesOwnInstrument ==
    (mpc \in {"step5", "returned"}
       /\ \A k \in 1..Len(Get(input_data, "instruments").items) :
             ModuleFound(Get(input_data, "instruments").items[k]))
    => /\ Len(densidades_instr) = Len(mnotas)
       /\ \A k \in 1..Len(densidades_instr) :
             LET own == LowerName(Get(input_data, "instruments").items[k])
             IN /\ densidades_instr[k].modulo = own
                /\ densidades_instr[k].d =
                      DensidadeNota(own, mnotas[k], Get(input_data, "dynamics").items[k])
                /\ densidades_instr[k].num = Get(input_data, "num_instruments").items[k]

\* C24: starting from an absent or in-range calibration store, after any
\* sequence of automatic calibrations and manual lambda settings the persisted
\* lambda, and therefore every lambda returned by a load, lies in [0.01, 1.0];
\* a manual value outside that range is rejected and leaves the stored value
\* unchanged: nothing but values of the range is ever written, and the store
\* is absent or holds its first lambda or the last one written.
C24_PersistedLambdaStaysInRange ==
    /\ store \in InRangeStores \/ (saves # <<>> /\ store = Object(TRUE, saves[Len(saves)]))
    /\ store.hasLambda => (1 <= store.lambda /\ store.lambda <= 100)
    /\ \A k \in 1..Len(saves) : 1 <= saves[k] /\ saves[k] <= 100
    /\ loadOut.called => (~loadOut.raised /\ 1 <= loadOut.val /\ loadOut.val <= 100)
    /\ mlamb.given => (1 <= mlamb.val /\ mlamb.val <= 100)

\* a calibration or manual set was followed by another, and a load then
\* returned the lambda written last
C24_Witness ==
    /\ Len(saves) = 2 /\ saves[1] # saves[2]
    /\ loadOut.called /\ loadOut.val = saves[2]
    /\ store = Object(TRUE, saves[2])

\* C25: in every psychoacoustically corrected interval-density computation
\* the three stages are applied in the order masking, then loudness
\* correction, then roughness, and roughness is computed on the masked
\* amplitudes.
C25_MaskThenLoudnessThenRoughnessOnMasked ==
    /\ stages = SubSeq(<<"masking", "loudness", "roughness">>, 1, Len(stages))
    /\ (\E k \in DOMAIN stages : stages[k] = "roughness") => rough_arg = amps_masked

\* C26: in the calibration objective, for each rated interval k in
\* {0, 2, 3, 4, 5, 6} the two-note chord whose density is compared with the
\* rating of k consists of C4 and the note exactly k semitones above C4
\* (k = 0 being C4 with C4).
C26_ObjectiveChordSpansRatedInterval ==
    (fname = "objetivo" /\ fpc = "done") =>
        /\ fout.notas[1] = <<"C", "4">>
        /\ fout.midi[1] = 6000
        /\ fout.midi[2] = 6000 + 100 * farg

\* C27: is_valid_note is a pure predicate that agrees with the parser: a
\* string is accepted by is_valid_note exactly when note_to_midi parses it
\* through one of its note patterns (result determined by letter, accidental,
\* octave, quarter-tone and cents) rather than through the 60.0 fallback.
C27_ValidExactlyWhenParsed ==
    (fname = "is_valid_note" /\ fpc = "done") => (fout.valid <=> fout.parsed)

\* C28: in the interval-density sum the minimum-delta rule applies exactly
\* when two notes with different spellings have a MIDI difference below 0.01
\* semitone: that pair is then counted with a delta of 0.25 semitone (0.5
\* quarter-tone units); a pair of identically spelled notes is counted as a
\* unison (delta 0), and every other pair is counted with its true delta.
\* The notes are the non-empty entries of the list; a delta is in hundredths
\* of a quarter tone.
C28_MinimumDeltaForDistinctSpellings ==
    (dpc = "done" /\ dres.call = "density" /\ dres.impl = "DI" /\ ~dres.raised) =>
        LET kept == SelectSeq(chord, Truthy)
        IN \A t \in 1..Len(dres.terms) :
              LET term == dres.terms[t]
                  d == Abs(term.midi1 - term.midi2)
              IN term.delta = IF kept[term.i] = kept[term.j] THEN 0
                              ELSE IF d < 1 THEN 50
                              ELSE 2 * d

\* C29: the 24-step position scale is consistent with MIDI pitch:
\* nota_para_posicao is defined for every valid note (sharps, flats,
\* quarter-tone codes, arrows, cents), and for all valid notes a and b,
\* nota_para_posicao(a) - nota_para_posicao(b) equals
\* 2 x (note_to_midi(a) - note_to_midi(b)), one position step being one
\* quarter tone.
C29_PositionScaleFollowsMidi ==
    (fname = "nota_para_posicao" /\ fpc = "done" /\ fout.valid) =>
        /\ ~fout.posA.raised /\ ~fout.posB.raised
        /\ fout.posA.val - fout.posB.val = 2 * (fout.midiA - fout.midiB)

\* C30: calculate_harmonic_ratio counts a pitch as harmonic exactly when its
\* distance to the nearest whole number of octaves above the lowest pitch is
\* at most 0.25 semitone, on either side of that octave multiple; the result
\* is that energy divided by the total energy, always within [0, 1], and 0.0
\* for empty or zero-energy input.
C30_HarmonicWithinQuarterSemitoneOfOctave ==
    (fname = "calculate_harmonic_ratio" /\ fpc = "done") =>
        LET n == Len(fout.intervals)
            r(k) == fout.intervals[k] % 1200
            near(k) == Min(r(k), 1200 - r(k)) <= 25
            total == MaskedSum(fout.amps, [k \in 1..n |-> TRUE])
            harm == MaskedSum(fout.amps, [k \in 1..n |-> near(k)])
        IN /\ \A k \in 1..n : fout.harmonic_mask[k] <=> near(k)
           /\ fout.ratio = IF total > 0 THEN Q(harm, total) ELSE Q(0, 1)
           /\ QLe(Q(0, 1), fout.ratio) /\ QLe(fout.ratio, Q(1, 1))

====
